---- MODULE Spec2Model ----
(***************************************************************************)
(* Model of the quiz application: the quiz screen (QuizScreen.tsx: answer  *)
(* collection, Check results, per-page scoring) and the admin write path   *)
(* (admin/actions.ts: createQuiz inserting a quiz tree, updateQuiz         *)
(* reconciling a desired quiz tree with the persisted rows, as a whole and *)
(* one store call at a time) and the read path (lib/supabase/queries.ts:   *)
(* getQuizWithPages, getQuizWithPagesBySlug), the immediate admin actions  *)
(* (deleteQuizPage, deleteQuestion, deleteOption, deleteTheoryBlock,       *)
(* uploadTheoryImage) and the quiz editor (EditQuizScreen: the form, its   *)
(* validation, its handlers).                                              *)
(*                                                                         *)
(* Strings are sequences of one-character strings, so that trim() and      *)
(* toLowerCase() are computed and not assumed.  Option identifiers on the  *)
(* quiz screen are naturals standing for uuid strings under the order      *)
(* Array.prototype.sort() uses.                                            *)
(***************************************************************************)
EXTENDS Integers, Sequences, FiniteSets, TLC

VARIABLES
    quiz,          \* QuizScreen prop: the loaded quiz, [pages |-> <<page, ...>>]
    selected,      \* QuizScreen state: question id -> sequence of option ids
    textAnswers,   \* QuizScreen state: question id -> typed text
    checkedPages,  \* QuizScreen state: ids of the pages already checked
    pageIndex,     \* QuizScreen state: 0-based index of the current page
    picked,        \* history: the option the respondent last picked for each gap
                   \* of a question of a select_gaps page (0: none); the
                   \* component itself keeps no such state
    db,            \* the store: the rows of quiz_pages, questions, options and
                   \* theory_blocks, the assets of the image bucket, and the
                   \* next identifier the store hands out
    calls,         \* history: the invocations made so far (updateQuiz,
                   \* createQuiz, the reads), each with its argument and its
                   \* result
    runs,          \* the updateQuiz invocations under way, each between two
                   \* of its store calls: its position and its local variables
    form           \* EditQuizScreen state: the values of the form (pages,
                   \* questions, options), the theory blocks, and the number
                   \* of operations of the administrator so far

screenVars == <<quiz, selected, textAnswers, checkedPages, pageIndex, picked>>

storeVars == <<db, calls, runs>>

editorVars == <<form>>

-----------------------------------------------------------------------------
(* Bounds *)

\* longest text a respondent types
MaxLen == 2
\* most options of a question in the one-question quizzes
MaxOptions == 2
\* most pages of a persisted quiz and of a desired tree
MaxPages == 2
\* most questions of a desired page, options of a desired question and
\* theory blocks of a desired tree
MaxItems == 2

-----------------------------------------------------------------------------
(* Generic sequence helpers *)

Range(s) == {s[i] : i \in 1..Len(s)}

SeqsUpTo(S, n) == UNION {[1..k -> S] : k \in 0..n}

-----------------------------------------------------------------------------
(* Strings *)

Chars == {" ", "a", "A"}

Strings == SeqsUpTo(Chars, MaxLen)

\* String.prototype.toLowerCase on the alphabet used
LowerChar(c) == IF c = "A" THEN "a" ELSE c

toLowerCase(s) == [i \in 1..Len(s) |-> LowerChar(s[i])]

RECURSIVE TrimStart(_)
TrimStart(s) ==
    IF s # <<>> /\ Head(s) = " " THEN TrimStart(Tail(s)) ELSE s

RECURSIVE TrimEnd(_)
TrimEnd(s) ==
    IF s # <<>> /\ s[Len(s)] = " " THEN TrimEnd(SubSeq(s, 1, Len(s) - 1)) ELSE s

\* String.prototype.trim
trim(s) == TrimEnd(TrimStart(s))

\* The placeholder token of a question template
GapToken == <<"[", "[", "]", "]">>

\* title.split("[[]]").length - 1: non-overlapping occurrences, left to right
RECURSIVE SplitCount(_)
SplitCount(t) ==
    IF Len(t) < Len(GapToken) THEN 0
    ELSE IF SubSeq(t, 1, Len(GapToken)) = GapToken
         THEN 1 + SplitCount(SubSeq(t, Len(GapToken) + 1, Len(t)))
         ELSE SplitCount(Tail(t))

Max(a, b) == IF a >= b THEN a ELSE b

\* Math.max(1, Math.max(0, title.split("[[]]").length - 1))
gapCount(title) == Max(1, Max(0, SplitCount(title)))

-----------------------------------------------------------------------------
(* Types *)

TestType == {"single", "multiple", "input", "select_gaps"}

\* Gap indices the quizzes use
Gaps == {0, 1}

\* o.gap_index ?? 0
GapOf(o) == o.gap_index

-----------------------------------------------------------------------------
(* QuizScreen: derived values of one render *)

pages == quiz.pages

\* pages.length || 1
totalPages == IF Len(pages) = 0 THEN 1 ELSE Len(pages)

NoPage == [id |-> "", type |-> "single", questions |-> <<>>]

\* pages[pageIndex] ?? { type: "single", questions: [] }
currentPage == IF pageIndex + 1 \in 1..Len(pages) THEN pages[pageIndex + 1] ELSE NoPage

pageType == currentPage.type

\* currentPage.id ? !!checkedPages[currentPage.id] : false
isCurrentPageChecked == currentPage.id # "" /\ currentPage.id \in checkedPages

hasNextPage == pageIndex < totalPages - 1

hasPrevPage == pageIndex > 0

-----------------------------------------------------------------------------
(* QuizScreen: getScore *)

IsCorrectOption(o) == o.is_correct

OptionId(o) == o.id

MapSeq(s, F(_)) == [i \in 1..Len(s) |-> F(s[i])]

\* Array.prototype.includes
Includes(s, x) == \E i \in 1..Len(s) : s[i] = x

\* Insert x into the ascending sequence s
RECURSIVE InsertSorted(_, _)
InsertSorted(x, s) ==
    IF s = <<>> THEN <<x>>
    ELSE IF x <= Head(s) THEN <<x>> \o s
         ELSE <<Head(s)>> \o InsertSorted(x, Tail(s))

RECURSIVE SortAscending(_)
SortAscending(s) ==
    IF s = <<>> THEN <<>> ELSE InsertSorted(Head(s), SortAscending(Tail(s)))

\* [...ids].sort()
SortIds(s) == SortAscending(s)

\* q.options.find((o) => o.is_correct): the first flagged option, as a
\* sequence of length 0 (undefined) or 1
FindCorrect(options) ==
    LET flagged == SelectSeq(options, IsCorrectOption)
    IN  IF flagged = <<>> THEN <<>> ELSE <<Head(flagged)>>

\* pageType === "single" branch
ScoreSingle(q, chosen) ==
    LET correctOption == FindCorrect(q.options)
    IN  /\ Len(chosen) = 1
        /\ correctOption # <<>>
        /\ chosen[1] = correctOption[1].id

\* Mutant of ScoreMultiple: the selection is compared in the order of selection
ScoreMultipleUnsorted(q, chosen) ==
    LET correctIds == SortIds(MapSeq(SelectSeq(q.options, IsCorrectOption), OptionId))
        chosenIds  == chosen
    IN  /\ Len(correctIds) = Len(chosenIds)
        /\ \A i \in 1..Len(correctIds) : correctIds[i] = chosenIds[i]

\* pageType === "multiple" branch
ScoreMultiple(q, chosen) ==
    LET correctIds == SortIds(MapSeq(SelectSeq(q.options, IsCorrectOption), OptionId))
        chosenIds  == SortIds(chosen)
    IN  /\ Len(correctIds) = Len(chosenIds)
        /\ \A i \in 1..Len(correctIds) : correctIds[i] = chosenIds[i]

NormalizedText(o) == toLowerCase(trim(o.option_text))

NonEmpty(s) == s # <<>>

\* Mutant of ScoreInput: the submission is case-folded but not trimmed
ScoreInputUntrimmed(q, textAnswer) ==
    LET user == toLowerCase(textAnswer)
        correctTexts == SelectSeq(MapSeq(q.options, NormalizedText), NonEmpty)
    IN  /\ user # <<>>
        /\ Len(correctTexts) > 0
        /\ Includes(correctTexts, user)

\* pageType === "input" branch
ScoreInput(q, textAnswer) ==
    LET user == toLowerCase(trim(textAnswer))
        correctTexts == SelectSeq(MapSeq(q.options, NormalizedText), NonEmpty)
    IN  /\ user # <<>>
        /\ Len(correctTexts) > 0
        /\ Includes(correctTexts, user)

\* The body of getScore's forEach for one question: does it do correct++ ?
QuestionCorrect(q, type) ==
    IF type = "single" THEN ScoreSingle(q, selected[q.id])
    ELSE IF type = "multiple" THEN ScoreMultiple(q, selected[q.id])
    ELSE IF type = "input" THEN ScoreInput(q, textAnswers[q.id])
    ELSE FALSE

\* The forEach loop: correct after the questions from index i on
RECURSIVE CountCorrect(_, _, _)
CountCorrect(questions, type, i) ==
    IF i > Len(questions) THEN 0
    ELSE (IF QuestionCorrect(questions[i], type) THEN 1 ELSE 0)
         + CountCorrect(questions, type, i + 1)

getScore ==
    [correct |-> CountCorrect(currentPage.questions, pageType, 1),
     total   |-> Len(currentPage.questions)]

\* choiceQuestions.length === 0 || choiceQuestions.every(...)
allChoiceAnswered ==
    \/ ~(pageType = "single" \/ pageType = "multiple")
    \/ Len(currentPage.questions) = 0
    \/ \A i \in 1..Len(currentPage.questions) :
           Len(selected[currentPage.questions[i].id]) >= 1

\* textQuestions.length === 0 || textQuestions.every(...)
allTextAnswered ==
    \/ pageType # "input"
    \/ Len(currentPage.questions) = 0
    \/ \A i \in 1..Len(currentPage.questions) :
           Len(trim(textAnswers[currentPage.questions[i].id])) > 0

-----------------------------------------------------------------------------
(* The quizzes the screen is opened on *)

PageIds == {"p1", "p2"}

QuestionIds == {"q1", "q2", "q3"}

PlainTitle == <<"w">>

OneGapTitle == GapToken

TwoGapTitle == GapToken \o <<"w">> \o GapToken

\* Texts an option row holds: blank, differing from its normal form by case
\* and by surrounding blanks, and a second normal form
OptionTexts == {<<" ">>, <<"A">>, <<"a", "a">>}

Option(id, text, correct, gap) ==
    [id |-> id, option_text |-> text, is_correct |-> correct, gap_index |-> gap]

\* What the rows of a page of each type vary in: [text, correct, gap]
OptionAttrs(type) ==
    IF type = "input"
    THEN [text : OptionTexts, correct : {TRUE}, gap : {0, 1}]
    ELSE IF type = "select_gaps"
    THEN [text : {<<"a">>}, correct : BOOLEAN, gap : {0, 1}]
    ELSE [text : {<<"a">>}, correct : BOOLEAN, gap : {0}]

\* The option lists of a question: the store returns the rows of a question
\* in no particular order, so the ids ascend or descend along the list
OptionLists(type) ==
    UNION {
        UNION {
            { [i \in 1..n |-> Option(i, f[i].text, f[i].correct, f[i].gap)],
              [i \in 1..n |-> Option(n + 1 - i, f[i].text, f[i].correct, f[i].gap)] }
            : f \in [1..n -> OptionAttrs(type)] }
        : n \in 0..MaxOptions }

TitlesOf(type) ==
    IF type \in {"input", "select_gaps"}
    THEN {PlainTitle, TwoGapTitle}
    ELSE {PlainTitle}

Question(id, title, options) ==
    [id |-> id, question_title |-> title, options |-> options]

Page(id, type, questions) == [id |-> id, type |-> type, questions |-> questions]

\* One page with one question, its options drawn freely
OneQuestionQuizzes ==
    UNION {
        { [pages |-> <<Page("p1", t, <<Question("q1", title, opts)>>)>>]
          : title \in TitlesOf(t), opts \in OptionLists(t) }
        : t \in TestType }

\* The two options (ids first, first + 1) of a question of the two-page quizzes
StandardOptions(type, first) ==
    IF type = "input"
    THEN <<Option(first, <<"A">>, TRUE, 0), Option(first + 1, <<"a", "a">>, TRUE, 1)>>
    ELSE <<Option(first + 1, <<"a">>, FALSE, 0), Option(first, <<"a">>, TRUE, 0)>>

StandardTitle(type) ==
    IF type = "input" THEN TwoGapTitle
    ELSE IF type = "select_gaps" THEN OneGapTitle
    ELSE PlainTitle

\* The types of the two pages
PageTypePairs ==
    {<<"single", "multiple">>, <<"multiple", "single">>,
     <<"input", "single">>, <<"select_gaps", "single">>}

\* Two pages: two questions on the first, one question on the second
TwoPageQuizzes ==
    { [pages |->
         <<Page("p1", t[1], <<Question("q1", StandardTitle(t[1]), StandardOptions(t[1], 1)),
                              Question("q2", StandardTitle(t[1]), StandardOptions(t[1], 3))>>),
           Page("p2", t[2], <<Question("q3", StandardTitle(t[2]), StandardOptions(t[2], 5))>>)>>]
      : t \in PageTypePairs }

\* quiz.pages ?? []: a quiz without pages
EmptyQuiz == [pages |-> <<>>]

Quizzes == OneQuestionQuizzes \cup TwoPageQuizzes \cup {EmptyQuiz}

-----------------------------------------------------------------------------
(* QuizScreen: state and handlers *)

InitScreen ==
    /\ quiz \in Quizzes
    /\ selected = [q \in QuestionIds |-> <<>>]
    /\ textAnswers = [q \in QuestionIds |-> <<>>]
    /\ checkedPages = {}
    /\ pageIndex = 0
    /\ picked = [q \in QuestionIds |-> [g \in Gaps |-> 0]]

\* Mutant of handleSelect: a checked page still takes selections
handleSelectChecked(questionId, optionId, type) ==
    /\ UNCHANGED <<quiz, textAnswers, checkedPages, pageIndex>>
    /\ UNCHANGED <<storeVars, editorVars>>
    /\ IF type = "single"
       THEN selected' = [selected EXCEPT ![questionId] = <<optionId>>]
       ELSE IF type = "multiple"
       THEN LET current == selected[questionId]
                next == IF Includes(current, optionId)
                        THEN SelectSeq(current, LAMBDA id : id # optionId)
                        ELSE Append(current, optionId)
            IN  selected' = [selected EXCEPT ![questionId] = next]
       ELSE UNCHANGED selected

\* handleSelect(questionId, optionId, type)
handleSelect(questionId, optionId, type) ==
    /\ UNCHANGED <<quiz, textAnswers, checkedPages, pageIndex>>
    /\ UNCHANGED <<storeVars, editorVars>>
    /\ IF isCurrentPageChecked THEN UNCHANGED selected
       ELSE IF type = "single"
       THEN selected' = [selected EXCEPT ![questionId] = <<optionId>>]
       ELSE IF type = "multiple"
       THEN LET current == selected[questionId]
                next == IF Includes(current, optionId)
                        THEN SelectSeq(current, LAMBDA id : id # optionId)
                        ELSE Append(current, optionId)
            IN  selected' = [selected EXCEPT ![questionId] = next]
       ELSE UNCHANGED selected

\* OptionRow onClick / RadioGroup onValueChange of an option the page shows
HandleSelect ==
    \E qi \in 1..Len(currentPage.questions) :
        LET q == currentPage.questions[qi]
        IN  \E oi \in 1..Len(q.options) :
                /\ pageType # "input"
                /\ handleSelect(q.id, q.options[oi].id, pageType)
                /\ picked' = IF pageType = "select_gaps" /\ ~isCurrentPageChecked
                              THEN [picked EXCEPT ![q.id][GapOf(q.options[oi])] =
                                                      q.options[oi].id]
                              ELSE picked

\* Input onChange -> onChangeText(value)
OnChangeText ==
    \E qi \in 1..Len(currentPage.questions), value \in Strings :
        /\ pageType = "input"
        /\ UNCHANGED <<quiz, selected, checkedPages, pageIndex, picked>>
        /\ UNCHANGED <<storeVars, editorVars>>
        /\ IF isCurrentPageChecked THEN UNCHANGED textAnswers
           ELSE textAnswers' =
                    [textAnswers EXCEPT ![currentPage.questions[qi].id] = value]

\* Mutant of HandleCheck: checking a page also moves on to the next page
HandleCheckAdvancing ==
    /\ ~isCurrentPageChecked
    /\ ~(Len(currentPage.questions) = 0 \/ ~allChoiceAnswered \/ ~allTextAnswered)
    /\ checkedPages' = IF currentPage.id # ""
                       THEN checkedPages \cup {currentPage.id}
                       ELSE checkedPages
    /\ pageIndex' = IF hasNextPage THEN pageIndex + 1 ELSE pageIndex
    /\ UNCHANGED <<quiz, selected, textAnswers, picked>>
    /\ UNCHANGED <<storeVars, editorVars>>

\* The Check results button (shown while the page is unchecked, enabled when
\* every question is answered) -> handleCheck
HandleCheck ==
    /\ ~isCurrentPageChecked
    /\ ~(Len(currentPage.questions) = 0 \/ ~allChoiceAnswered \/ ~allTextAnswered)
    /\ checkedPages' = IF currentPage.id # ""
                       THEN checkedPages \cup {currentPage.id}
                       ELSE checkedPages
    /\ UNCHANGED <<quiz, selected, textAnswers, pageIndex, picked>>
    /\ UNCHANGED <<storeVars, editorVars>>

\* Next page: the large button of a checked page, or the pager
NextPage ==
    /\ hasNextPage
    /\ isCurrentPageChecked \/ totalPages > 1
    /\ pageIndex' = pageIndex + 1
    /\ UNCHANGED <<quiz, selected, textAnswers, checkedPages, picked>>
    /\ UNCHANGED <<storeVars, editorVars>>

\* Previous page of the pager
PrevPage ==
    /\ totalPages > 1
    /\ hasPrevPage
    /\ pageIndex' = pageIndex - 1
    /\ UNCHANGED <<quiz, selected, textAnswers, checkedPages, picked>>
    /\ UNCHANGED <<storeVars, editorVars>>

\* The numbered buttons of the pager
GoToPage ==
    /\ totalPages > 1
    /\ \E i \in 0..(Len(pages) - 1) : pageIndex' = i
    /\ UNCHANGED <<quiz, selected, textAnswers, checkedPages, picked>>
    /\ UNCHANGED <<storeVars, editorVars>>

NextScreen ==
    \/ HandleSelect
    \/ OnChangeText
    \/ HandleCheck
    \/ NextPage
    \/ PrevPage
    \/ GoToPage

-----------------------------------------------------------------------------
(* The store: the tables updateQuiz writes, and the image bucket *)

\* id?: string left out of a desired item
NoId == 0

\* gap_index left out of a desired option; a null gap_index column
NoGap == -1

QuizIds == {"Q1", "Q2"}

\* Theory-block contents: texts are strings; the public URL of an image is a
\* one-symbol string naming the URL
BucketUrlA == <<"url:Eanglish/a.png">>

BucketUrlB == <<"url:Eanglish/b.png">>

ForeignUrl == <<"url:elsewhere/c.png">>

\* getStoragePathFromPublicUrl(url, THEORY_IMAGES_BUCKET); "" stands for null
getStoragePathFromPublicUrl(url) ==
    IF url = BucketUrlA THEN "a.png"
    ELSE IF url = BucketUrlB THEN "b.png"
    ELSE ""

\* The null of a nullable text column
Null == <<"null">>

\* value || null
OrNull(text) == IF text = <<>> THEN Null ELSE text

\* quizzes: slug is unique; title and description are left out
QuizRow(id, slug) == [id |-> id, slug |-> slug]

PageRow(id, quizId, type, title, orderIndex) ==
    [id |-> id, quiz_id |-> quizId, type |-> type, title |-> title,
     order_index |-> orderIndex]

QuestionRow(id, pageId, title, explanation, orderIndex) ==
    [id |-> id, page_id |-> pageId, question_title |-> title,
     explanation |-> explanation, order_index |-> orderIndex]

OptionRow(id, questionId, text, correct, gap) ==
    [id |-> id, question_id |-> questionId, option_text |-> text,
     is_correct |-> correct, gap_index |-> gap]

BlockRow(id, quizId, type, content, orderIndex) ==
    [id |-> id, quiz_id |-> quizId, type |-> type, content |-> content,
     order_index |-> orderIndex]

Ids(rows) == {row.id : row \in rows}

\* delete from options where id in ids
DeleteOptions(d, ids) ==
    [d EXCEPT !.options = {o \in d.options : o.id \notin ids}]

\* Mutant of DeleteQuestions: the options of a deleted question stay
DeleteQuestionsNoCascade(d, ids) ==
    [d EXCEPT !.questions = {q \in d.questions : q.id \notin ids}]

\* delete from questions where id in ids; options go by on delete cascade
DeleteQuestions(d, ids) ==
    [d EXCEPT !.questions = {q \in d.questions : q.id \notin ids},
              !.options = {o \in d.options : o.question_id \notin ids}]

\* Mutant of DeletePages: the questions of a deleted page stay
DeletePagesNoCascade(d, ids) ==
    [d EXCEPT !.quiz_pages = {p \in d.quiz_pages : p.id \notin ids}]

\* delete from quiz_pages where id in ids; questions and their options go by
\* on delete cascade
DeletePages(d, ids) ==
    LET gone == Ids({q \in d.questions : q.page_id \in ids})
    IN  [DeleteQuestions(d, gone) EXCEPT
             !.quiz_pages = {p \in d.quiz_pages : p.id \notin ids}]

\* delete from theory_blocks where id in ids
DeleteBlocks(d, ids) ==
    [d EXCEPT !.theory_blocks = {b \in d.theory_blocks : b.id \notin ids}]

\* storage.from(bucket).remove(paths)
RemoveAssets(d, paths) == [d EXCEPT !.storage = d.storage \ paths]

\* update ... where id = id: the row with the given columns replaced
UpdateRows(rows, id, Change(_)) ==
    {IF row.id = id THEN Change(row) ELSE row : row \in rows}

-----------------------------------------------------------------------------
(* updateQuiz *)

\* The state of one invocation: the store, whether it is still running
\* without an error, and the statements issued
Run(d) == [db |-> d, ok |-> TRUE, error |-> "",
           inserts |-> 0, updates |-> 0, deletes |-> 0]

Fail(r, message) == [r EXCEPT !.ok = FALSE, !.error = message]

\* Mutant of IsKept: every desired item is inserted anew
IsKeptNever(id, existingIds) == FALSE

\* item.id && existingIds.has(item.id): the item is updated in place
IsKept(id, existingIds) == id # NoId /\ id \in existingIds

\* (o.option_text ?? "").trim() is not empty
HasText(o) == trim(o.option_text) # <<>>

\* Mutant of GapOrZero: a gap index left out stays left out
GapAsSent(o) == o.gap_index

\* o.gap_index ?? 0
GapOrZero(o) == IF o.gap_index = NoGap THEN 0 ELSE o.gap_index

\* Mutant of InputOption: the text is written as sent
InputOptionUntrimmed(o) ==
    [id |-> o.id, option_text |-> o.option_text, is_correct |-> TRUE,
     gap_index |-> GapOrZero(o)]

\* The rows an input page syncs
InputOption(o) ==
    [id |-> o.id, option_text |-> trim(o.option_text), is_correct |-> TRUE,
     gap_index |-> GapOrZero(o)]

\* The rows a select_gaps page syncs
SelectGapsOption(o) ==
    [id |-> o.id, option_text |-> trim(o.option_text), is_correct |-> o.is_correct,
     gap_index |-> GapOrZero(o)]

\* optionsToSync
optionsToSync(type, options) ==
    IF type = "input" THEN MapSeq(SelectSeq(options, HasText), InputOption)
    ELSE IF type = "select_gaps" THEN MapSeq(SelectSeq(options, HasText), SelectGapsOption)
    ELSE options

\* const x = value; body(x): the value is computed once
Const(value, Body(_)) == CHOOSE y \in {Body(x) : x \in {value}} : TRUE

\* The for loop over optionsToSync from index i on; kept is keptOptIds
RECURSIVE SyncOptions(_, _, _, _, _, _, _)
SyncOptions(r, questionId, type, opts, existingOptIds, i, kept) ==
    IF i > Len(opts) THEN [r |-> r, kept |-> kept]
    ELSE
    LET o == opts[i]
        isInput == type = "input"
        isGapBased == type = "input" \/ type = "select_gaps"
        correct == IF isInput THEN TRUE ELSE o.is_correct
        Change(row) ==
            [row EXCEPT !.option_text = o.option_text,
                        !.is_correct = correct,
                        !.gap_index = IF isGapBased THEN GapOrZero(o) ELSE @]
        inserted == OptionRow(r.db.nextId, questionId, o.option_text, correct,
                              IF isGapBased THEN GapOrZero(o) ELSE NoGap)
    IN  IF IsKept(o.id, existingOptIds)
        THEN Const([r EXCEPT !.db.options = UpdateRows(@, o.id, Change),
                             !.updates = @ + 1],
                   LAMBDA r2 : SyncOptions(r2, questionId, type, opts, existingOptIds,
                                           i + 1, Append(kept, o.id)))
        ELSE Const([r EXCEPT !.db.options = @ \cup {inserted},
                             !.db.nextId = @ + 1,
                             !.inserts = @ + 1],
                   LAMBDA r2 : SyncOptions(r2, questionId, type, opts, existingOptIds,
                                           i + 1, Append(kept, inserted.id)))

\* The desired options with the ids of keptOptIds put on those that were synced
RECURSIVE WithKeptIds(_, _, _)
WithKeptIds(type, options, kept) ==
    IF options = <<>> THEN <<>>
    ELSE IF type \in {"input", "select_gaps"} /\ ~HasText(Head(options))
         THEN <<Head(options)>> \o WithKeptIds(type, Tail(options), kept)
         ELSE <<[Head(options) EXCEPT !.id = Head(kept)]>>
              \o WithKeptIds(type, Tail(options), Tail(kept))

\* The options of question questionId: the sync, then the delete of the rows
\* that were not kept
SyncQuestionOptions(r, questionId, type, opts) ==
    LET existingOpts == Ids({o \in r.db.options : o.question_id = questionId})
    IN  Const(SyncOptions(r, questionId, type, opts, existingOpts, 1, <<>>),
              LAMBDA synced :
                  LET toDel == existingOpts \ Range(synced.kept)
                  IN  [r |-> IF toDel # {}
                             THEN [synced.r EXCEPT !.db = DeleteOptions(@, toDel),
                                                   !.deletes = @ + 1]
                             ELSE synced.r,
                       kept |-> synced.kept])

\* The statements of one question q of a page: its row, then its options.
\* saved is the desired question with the ids kept or produced, when it got
\* that far.
SyncQuestion(r, pageId, type, q, existingQuestionIds) ==
    LET known == IsKept(q.id, existingQuestionIds)
        questionId == IF known THEN q.id ELSE r.db.nextId
        Change(row) == [row EXCEPT !.question_title = q.question_title,
                                   !.explanation = OrNull(q.explanation),
                                   !.order_index = q.order_index]
        inserted == QuestionRow(questionId, pageId, q.question_title,
                                OrNull(q.explanation), q.order_index)
        isGapBased == type = "input" \/ type = "select_gaps"
    IN  Const(IF known
              THEN [r EXCEPT !.db.questions = UpdateRows(@, q.id, Change),
                             !.updates = @ + 1]
              ELSE [r EXCEPT !.db.questions = @ \cup {inserted},
                             !.db.nextId = @ + 1,
                             !.inserts = @ + 1],
              LAMBDA r1 :
        Const(optionsToSync(type, q.options),
              LAMBDA opts :
                  IF ~isGapBased /\ Len(opts) = 0
                  THEN [r |-> Fail(r1, "Choice page must have at least one option per question"),
                        id |-> questionId, saved |-> q]
                  ELSE Const(SyncQuestionOptions(r1, questionId, type, opts),
                             LAMBDA synced :
                                 [r |-> synced.r, id |-> questionId,
                                  saved |-> [q EXCEPT
                                                !.id = questionId,
                                                !.options = WithKeptIds(type, q.options,
                                                                        synced.kept)]])))

\* The for loop over page.questions from index i on; kept is keptQuestionIds
RECURSIVE SyncQuestions(_, _, _, _, _, _, _, _)
SyncQuestions(r, pageId, type, qs, existingQuestionIds, i, kept, saved) ==
    IF i > Len(qs) \/ ~r.ok THEN [r |-> r, kept |-> kept, saved |-> saved]
    ELSE Const(SyncQuestion(r, pageId, type, qs[i], existingQuestionIds),
               LAMBDA one :
                   SyncQuestions(one.r, pageId, type, qs, existingQuestionIds, i + 1,
                                 Append(kept, one.id), Append(saved, one.saved)))

\* The questions of page pageId: the sync, then the delete of the questions
\* of the page that were not kept
SyncPageQuestions(r, pageId, type, qs) ==
    LET existingQuestions == Ids({q \in r.db.questions : q.page_id = pageId})
    IN  Const(SyncQuestions(r, pageId, type, qs, existingQuestions, 1, <<>>, <<>>),
              LAMBDA synced :
                  LET toDelQ == existingQuestions \ Range(synced.kept)
                  IN  [r |-> IF synced.r.ok /\ toDelQ # {}
                             THEN [synced.r EXCEPT !.db = DeleteQuestions(@, toDelQ),
                                                   !.deletes = @ + 1]
                             ELSE synced.r,
                       saved |-> synced.saved])

\* Mutant of SyncPage: the row of the id is updated wherever it is
SyncPageOfAnyQuiz(r, quizId, page, existingPageIds) ==
    LET known == page.id \in Ids(r.db.quiz_pages)
        pageId == IF known THEN page.id ELSE r.db.nextId
        Change(row) == [row EXCEPT !.type = page.type,
                                   !.title = OrNull(page.title),
                                   !.order_index = page.order_index]
        inserted == PageRow(pageId, quizId, page.type, OrNull(page.title),
                            page.order_index)
    IN  Const(IF known
              THEN [r EXCEPT !.db.quiz_pages = UpdateRows(@, page.id, Change),
                             !.updates = @ + 1]
              ELSE [r EXCEPT !.db.quiz_pages = @ \cup {inserted},
                             !.db.nextId = @ + 1,
                             !.inserts = @ + 1],
              LAMBDA r1 :
        Const(SyncPageQuestions(r1, pageId, page.type, page.questions),
              LAMBDA synced :
                  [r |-> synced.r, id |-> pageId,
                   saved |-> [page EXCEPT !.id = pageId,
                                          !.questions = synced.saved]]))

\* The statements of one desired page: its row, then its questions
SyncPage(r, quizId, page, existingPageIds) ==
    LET known == IsKept(page.id, existingPageIds)
        pageId == IF known THEN page.id ELSE r.db.nextId
        Change(row) == [row EXCEPT !.type = page.type,
                                   !.title = OrNull(page.title),
                                   !.order_index = page.order_index]
        inserted == PageRow(pageId, quizId, page.type, OrNull(page.title),
                            page.order_index)
    IN  Const(IF known
              THEN [r EXCEPT !.db.quiz_pages = UpdateRows(@, page.id, Change),
                             !.updates = @ + 1]
              ELSE [r EXCEPT !.db.quiz_pages = @ \cup {inserted},
                             !.db.nextId = @ + 1,
                             !.inserts = @ + 1],
              LAMBDA r1 :
        Const(SyncPageQuestions(r1, pageId, page.type, page.questions),
              LAMBDA synced :
                  [r |-> synced.r, id |-> pageId,
                   saved |-> [page EXCEPT !.id = pageId,
                                          !.questions = synced.saved]]))

\* The for loop over data.pages from index i on; kept is keptPageIds
RECURSIVE SyncPages(_, _, _, _, _, _, _)
SyncPages(r, quizId, ps, existingPageIds, i, kept, saved) ==
    IF i > Len(ps) \/ ~r.ok THEN [r |-> r, kept |-> kept, saved |-> saved]
    ELSE Const(SyncPage(r, quizId, ps[i], existingPageIds),
               LAMBDA one :
                   SyncPages(one.r, quizId, ps, existingPageIds, i + 1,
                             Append(kept, one.id), Append(saved, one.saved)))

\* (b.content ?? "").trim() || " "
BlockContent(b) == IF trim(b.content) = <<>> THEN <<" ">> ELSE trim(b.content)

\* The for loop over theoryBlocks from index i on; kept is keptBlockIds
RECURSIVE SyncBlocks(_, _, _, _, _, _, _)
SyncBlocks(r, quizId, bs, existingBlockIds, i, kept, saved) ==
    IF i > Len(bs) THEN [r |-> r, kept |-> kept, saved |-> saved]
    ELSE
    LET b == bs[i]
        content == BlockContent(b)
        Change(row) == [row EXCEPT !.type = b.type, !.content = content,
                                   !.order_index = b.order_index]
        inserted == BlockRow(r.db.nextId, quizId, b.type, content, b.order_index)
    IN  IF IsKept(b.id, existingBlockIds)
        THEN Const([r EXCEPT !.db.theory_blocks = UpdateRows(@, b.id, Change),
                             !.updates = @ + 1],
                   LAMBDA r2 : SyncBlocks(r2, quizId, bs, existingBlockIds, i + 1,
                                          Append(kept, b.id), Append(saved, b)))
        ELSE Const([r EXCEPT !.db.theory_blocks = @ \cup {inserted},
                             !.db.nextId = @ + 1,
                             !.inserts = @ + 1],
                   LAMBDA r2 : SyncBlocks(r2, quizId, bs, existingBlockIds, i + 1,
                                          Append(kept, inserted.id),
                                          Append(saved, [b EXCEPT !.id = inserted.id])))

\* The theory blocks of the quiz: sync, then the assets and the rows of the
\* blocks that were not kept
SyncTheory(r, quizId, theoryBlocks) ==
    LET existingBlocks == {b \in r.db.theory_blocks : b.quiz_id = quizId}
    IN  Const(SyncBlocks(r, quizId, theoryBlocks, Ids(existingBlocks), 1, <<>>, <<>>),
              LAMBDA synced :
                  LET toDelB == {b \in existingBlocks : b.id \notin Range(synced.kept)}
                      pathsToRemove ==
                          {getStoragePathFromPublicUrl(b.content) :
                               b \in {x \in toDelB : x.type = "image" /\ x.content # <<>>}}
                          \ {""}
                  IN  [r |-> IF toDelB # {}
                             THEN [synced.r EXCEPT
                                      !.db = DeleteBlocks(RemoveAssets(@, pathsToRemove),
                                                          Ids(toDelB)),
                                      !.deletes = @ + 1]
                             ELSE synced.r,
                       saved |-> synced.saved])

\* The pages of the quiz: sync, then the delete of the pages of the quiz
\* that were not kept
SyncQuizPages(r, quizId, ps) ==
    LET existingPages == Ids({p \in r.db.quiz_pages : p.quiz_id = quizId})
    IN  Const(SyncPages(r, quizId, ps, existingPages, 1, <<>>, <<>>),
              LAMBDA synced :
                  LET toDelP == existingPages \ Range(synced.kept)
                  IN  [r |-> IF synced.r.ok /\ toDelP # {}
                             THEN [synced.r EXCEPT !.db = DeletePages(@, toDelP),
                                                   !.deletes = @ + 1]
                             ELSE synced.r,
                       saved |-> synced.saved])

\* updateQuiz(data) on the store d: the store it leaves, { ok, error }, the
\* statements it issued and the desired tree with the ids kept or produced.
\* The columns of the quiz row itself (title, description, slug) are not
\* part of the model; every store call succeeds.
updateQuiz(d, data) ==
    Const([Run(d) EXCEPT !.updates = 1],
          LAMBDA r0 :
    Const(SyncQuizPages(r0, data.quizId, data.pages),
          LAMBDA paged :
    Const(IF paged.r.ok THEN SyncTheory(paged.r, data.quizId, data.theoryBlocks)
          ELSE [r |-> paged.r, saved |-> data.theoryBlocks],
          LAMBDA theory :
              [r |-> theory.r,
               saved |-> [quizId |-> data.quizId, pages |-> paged.saved,
                          theoryBlocks |-> theory.saved]])))

-----------------------------------------------------------------------------
(* The desired trees updateQuiz is called with *)

DOption(id, text, correct, gap) ==
    [id |-> id, option_text |-> text, is_correct |-> correct, gap_index |-> gap]

DQuestion(id, title, explanation, options) ==
    [id |-> id, question_title |-> title, explanation |-> explanation,
     order_index |-> 0, options |-> options]

DPage(id, type, title, questions) ==
    [id |-> id, type |-> type, title |-> title, order_index |-> 0,
     questions |-> questions]

DBlock(id, type, content) ==
    [id |-> id, type |-> type, content |-> content, order_index |-> 0]

\* order_index: the position in the list, as the editor's onSubmit sets it
Reindex(items) == [i \in 1..Len(items) |-> [items[i] EXCEPT !.order_index = i - 1]]

\* The rows in the order the editor lists them: by order_index, then by id
RECURSIVE InOrder(_)
InOrder(rows) ==
    IF rows = {} THEN <<>>
    ELSE LET first == CHOOSE r \in rows : \A x \in rows :
                          \/ r.order_index < x.order_index
                          \/ r.order_index = x.order_index /\ r.id <= x.id
         IN  <<first>> \o InOrder(rows \ {first})

RECURSIVE ById(_)
ById(rows) ==
    IF rows = {} THEN <<>>
    ELSE LET first == CHOOSE r \in rows : \A x \in rows : r.id <= x.id
         IN  <<first>> \o ById(rows \ {first})

\* The tree a client holds of a persisted quiz: every item with its id and
\* its columns
TreeOf(d, quizId) ==
    LET OptionItem(o) == DOption(o.id, o.option_text, o.is_correct, o.gap_index)
        QuestionItem(q) ==
            [id |-> q.id, question_title |-> q.question_title,
             explanation |-> IF q.explanation = Null THEN <<>> ELSE q.explanation,
             order_index |-> q.order_index,
             options |-> MapSeq(ById({o \in d.options : o.question_id = q.id}),
                                OptionItem)]
        PageItem(pg) ==
            [id |-> pg.id, type |-> pg.type,
             title |-> IF pg.title = Null THEN <<>> ELSE pg.title,
             order_index |-> pg.order_index,
             questions |-> MapSeq(InOrder({q \in d.questions : q.page_id = pg.id}),
                                  QuestionItem)]
        BlockItem(b) ==
            [id |-> b.id, type |-> b.type, content |-> b.content,
             order_index |-> b.order_index]
    IN  [quizId |-> quizId,
         pages |-> MapSeq(InOrder({pg \in d.quiz_pages : pg.quiz_id = quizId}), PageItem),
         theoryBlocks |-> MapSeq(InOrder({b \in d.theory_blocks : b.quiz_id = quizId}),
                                 BlockItem)]

\* The lists got from items by putting, for each item in turn, one of Choices(item)
Rewrites(items, Choices(_)) ==
    LET R[i \in 0..Len(items)] ==
            IF i = 0 THEN {<<>>}
            ELSE {t \o h : t \in R[i - 1], h \in Choices(items[i])}
    IN  R[Len(items)]

OneOrNone(S) == {<<>>} \cup {<<x>> : x \in S}

NextType(type) ==
    IF type = "single" THEN "multiple"
    ELSE IF type = "multiple" THEN "input"
    ELSE IF type = "input" THEN "select_gaps"
    ELSE "single"

\* Options a caller adds: untrimmed text with the flag off and no gap index,
\* a blank text, a plain option for the second gap
NewOptions ==
    {DOption(NoId, <<" ", "A">>, FALSE, NoGap),
     DOption(NoId, <<" ">>, TRUE, 1),
     DOption(NoId, <<"a">>, TRUE, 1)}

AddedOptions ==
    <<DOption(NoId, <<" ", "A">>, FALSE, NoGap), DOption(NoId, <<" ">>, TRUE, 1)>>

\* Questions a caller adds; with an id, a question that was under another
\* page
NewQuestions(ids) ==
    {DQuestion(id, TwoGapTitle, <<>>, AddedOptions) : id \in {NoId} \cup ids}
    \cup {DQuestion(NoId, PlainTitle, <<"w">>, <<>>)}

\* Pages a caller adds; with an id, a page of another quiz
NewPages(ids) ==
    {DPage(NoId, t, <<"w">>, <<DQuestion(NoId, PlainTitle, <<"w">>, AddedOptions)>>)
       : t \in TestType}
    \cup {DPage(id, "single", <<>>, <<>>) : id \in {NoId} \cup ids}
    \cup {DPage(NoId, "multiple", <<>>, <<DQuestion(NoId, PlainTitle, <<>>, <<>>)>>)}

NewBlocks ==
    {DBlock(NoId, "text", <<" ", "a">>), DBlock(NoId, "text", <<>>),
     DBlock(NoId, "image", BucketUrlA), DBlock(NoId, "image", ForeignUrl)}

\* What a caller does to an item it holds: leave it out, send it as it is,
\* send it changed
PageChoices(pg) ==
    {<<>>, <<pg>>, <<[pg EXCEPT !.type = NextType(@), !.title = <<>>]>>}

QuestionChoices(q) ==
    {<<>>, <<q>>, <<[q EXCEPT !.question_title = OneGapTitle, !.explanation = <<>>]>>}

OptionChoices(o) ==
    {<<>>, <<o>>,
     <<[o EXCEPT !.option_text = <<" ">>]>>,
     <<[o EXCEPT !.option_text = <<" ", "A">>, !.is_correct = ~@, !.gap_index = NoGap]>>,
     <<[o EXCEPT !.gap_index = IF @ = 1 THEN 0 ELSE 1]>>}

BlockChoices(b) ==
    {<<>>, <<b>>, <<[b EXCEPT !.content = IF b.type = "image" THEN BucketUrlB
                                            ELSE <<" ">>]>>}

\* Edits of the page list, every page that stays keeping its questions
PageEdits(d, tree) ==
    {[tree EXCEPT !.pages = Reindex(kept \o new)]
       : kept \in Rewrites(tree.pages, PageChoices),
         new \in OneOrNone(NewPages(Ids({pg \in d.quiz_pages : pg.quiz_id # tree.quizId})))}

\* Edits of the question list of one page
QuestionEdits(d, tree) ==
    UNION { LET others == Ids({q \in d.questions :
                                 /\ q.page_id # tree.pages[i].id
                                 /\ q.page_id \in Ids(Range(tree.pages))})
            IN  {[tree EXCEPT !.pages[i].questions = Reindex(kept \o new)]
                   : kept \in Rewrites(tree.pages[i].questions, QuestionChoices),
                     new \in OneOrNone(NewQuestions(others))}
          : i \in 1..Len(tree.pages) }

\* Edits of the option list of one question
OptionEdits(tree) ==
    UNION { UNION { {[tree EXCEPT !.pages[i].questions[j].options = kept \o new]
                       : kept \in Rewrites(tree.pages[i].questions[j].options,
                                           OptionChoices),
                         new \in OneOrNone(NewOptions)}
                  : j \in 1..Len(tree.pages[i].questions) }
          : i \in 1..Len(tree.pages) }

\* Edits of the theory blocks
BlockEdits(tree) ==
    {[tree EXCEPT !.theoryBlocks = Reindex(kept \o new)]
       : kept \in Rewrites(tree.theoryBlocks, BlockChoices),
         new \in OneOrNone(NewBlocks)}

\* The desired trees: the persisted tree of the quiz with one of its lists
\* edited, of at most MaxPages pages, MaxItems questions a page, MaxItems
\* options a question and MaxItems theory blocks
DesiredTrees(d, quizId) ==
    LET tree == TreeOf(d, quizId)
    IN  {t \in PageEdits(d, tree) \cup QuestionEdits(d, tree)
                 \cup OptionEdits(tree) \cup BlockEdits(tree) :
           /\ Len(t.pages) <= MaxPages
           /\ Len(t.theoryBlocks) <= MaxItems
           /\ \A i \in 1..Len(t.pages) :
                  /\ Len(t.pages[i].questions) <= MaxItems
                  /\ \A j \in 1..Len(t.pages[i].questions) :
                         Len(t.pages[i].questions[j].options) <= MaxItems}

-----------------------------------------------------------------------------
(* The stores updateQuiz starts on *)

\* A store holding one other quiz, Q2: a page with a question and an option,
\* and an image block with its asset
OtherQuizStore ==
    [quizzes |-> {QuizRow("Q2", <<"s">>)},
     quiz_pages |-> {PageRow(1, "Q2", "single", Null, 0)},
     questions |-> {QuestionRow(2, 1, PlainTitle, Null, 0)},
     options |-> {OptionRow(3, 2, <<"a">>, TRUE, NoGap)},
     theory_blocks |-> {BlockRow(4, "Q2", "image", BucketUrlB, 0)},
     storage |-> {"b.png"},
     nextId |-> 5]

\* The two options of a question of a page as first saved
SeedOptions(type) ==
    IF type = "input"
    THEN <<DOption(NoId, <<"a">>, TRUE, 0), DOption(NoId, <<"A">>, TRUE, 1)>>
    ELSE IF type = "select_gaps"
    THEN <<DOption(NoId, <<"a">>, TRUE, 0), DOption(NoId, <<"A">>, FALSE, 0)>>
    ELSE <<DOption(NoId, <<"a">>, TRUE, NoGap), DOption(NoId, <<"A">>, FALSE, NoGap)>>

SeedPage(type) ==
    DPage(NoId, type, <<"w">>,
          Reindex(<<DQuestion(NoId, StandardTitle(type), <<"w">>, SeedOptions(type)),
                    DQuestion(NoId, StandardTitle(type), <<>>, SeedOptions(type))>>))

SeedBlocks ==
    {<<>>, Reindex(<<DBlock(NoId, "text", <<"a">>), DBlock(NoId, "image", BucketUrlA)>>)}

\* The type k places after type in the cycle of NextType
RECURSIVE TypeAfter(_, _)
TypeAfter(type, k) == IF k = 0 THEN type ELSE TypeAfter(NextType(type), k - 1)

\* Quiz Q1 as first saved: up to MaxPages pages of successive types, of two
\* questions with two options each, without theory blocks or with a text
\* and an image
SeedTrees ==
    UNION { {[quizId |-> "Q1",
              pages |-> Reindex([i \in 1..n |-> SeedPage(TypeAfter(type, i - 1))]),
              theoryBlocks |-> blocks]
               : type \in TestType, blocks \in SeedBlocks}
          : n \in 0..MaxPages }

\* The store after the seed tree is saved and the image of its image block
\* is uploaded
SeedStore(tree) ==
    LET assets == {getStoragePathFromPublicUrl(b.content)
                     : b \in {x \in Range(tree.theoryBlocks) : x.type = "image"}}
    IN  [updateQuiz(OtherQuizStore, tree).r.db EXCEPT
            !.quizzes = @ \cup {QuizRow(tree.quizId, <<"s", "-", "2">>)},
            !.storage = @ \cup assets]

-----------------------------------------------------------------------------
(* The store: state and operations *)

\* No updateQuiz invocation is under way
NoRuns == <<>>

\* No editor is open
NoForm == [pages |-> <<>>, theoryBlocks |-> <<>>, edits |-> 0]

\* The record kept of an invocation
Invocation(before, data, result) ==
    [before |-> before, data |-> data, saved |-> result.saved,
     ok |-> result.r.ok, error |-> result.r.error,
     inserts |-> result.r.inserts, updates |-> result.r.updates,
     deletes |-> result.r.deletes]

InitStore ==
    /\ db \in {SeedStore(tree) : tree \in SeedTrees}
    /\ calls = <<>>
    /\ runs = NoRuns
    /\ form = NoForm

\* updateQuiz(data) for quiz Q1
UpdateQuiz ==
    /\ calls = <<>>
    /\ \E data \in DesiredTrees(db, "Q1") :
           \E result \in {updateQuiz(db, data)} :
               /\ db' = result.r.db
               /\ calls' = Append(calls, Invocation(db, data, result))
    /\ UNCHANGED <<screenVars, editorVars, runs>>

\* updateQuiz called again with the same tree, its items carrying the ids
\* the first call kept or produced
Resubmit ==
    /\ Len(calls) = 1
    /\ calls[1].ok
    /\ \E result \in {updateQuiz(db, calls[1].saved)} :
           /\ db' = result.r.db
           /\ calls' = Append(calls, Invocation(db, calls[1].saved, result))
    /\ UNCHANGED <<screenVars, editorVars, runs>>

NextStore ==
    \/ UpdateQuiz
    \/ Resubmit

-----------------------------------------------------------------------------
(* Specifications *)

vars == <<screenVars, storeVars, editorVars>>

\* The quiz screen, the store left alone
Init ==
    /\ InitScreen
    /\ db = OtherQuizStore
    /\ calls = <<>>
    /\ runs = NoRuns
    /\ form = NoForm

Next == NextScreen

Spec == Init /\ [][Next]_vars

\* The admin write path, no quiz screen open
InitAdmin ==
    /\ InitStore
    /\ quiz = EmptyQuiz
    /\ selected = [q \in QuestionIds |-> <<>>]
    /\ textAnswers = [q \in QuestionIds |-> <<>>]
    /\ checkedPages = {}
    /\ pageIndex = 0
    /\ picked = [q \in QuestionIds |-> [g \in Gaps |-> 0]]

SpecStore == InitAdmin /\ [][NextStore]_vars

-----------------------------------------------------------------------------
(* createQuiz *)

\* The message of the one check createQuiz and updateQuiz make themselves
ChoiceError == "Choice page must have at least one option per question"

\* error.message of a store call that fails
StoreError == "store call failed"

\* error.message of an insert the row-level security policy
\* ..._insert with check (is_admin()) refuses
PolicyError == "new row violates row-level security policy"

\* Mutant of Suffixed: the suffix is appended twice
SuffixedTwice(slug) == slug \o <<"-", "2", "-", "2">>

\* `${slug}-2`
Suffixed(slug) == slug \o <<"-", "2">>

\* The ids gen_random_uuid() gives quiz rows, in the order it gives them
QuizIdPool == <<"Q1", "Q2", "Q3">>

NewQuizId(d) ==
    QuizIdPool[CHOOSE i \in 1..Len(QuizIdPool) :
                   /\ QuizIdPool[i] \notin Ids(d.quizzes)
                   /\ \A j \in 1..(i - 1) : QuizIdPool[j] \in Ids(d.quizzes)]

\* The state of one createQuiz invocation by a caller who is an
\* administrator or not, whose fault-th store call fails (0: none does):
\* the store, whether it still runs without an error, the store calls
\* issued (n), the insert statements that took effect, the attempts at
\* inserting the quiz row, and the id of the question row in hand when the
\* options are found missing
CreateRun(d, admin, fault) ==
    [db |-> d, ok |-> TRUE, error |-> "", admin |-> admin, fault |-> fault,
     n |-> 0, inserts |-> 0, attempts |-> 0, rejected |-> NoId]

\* from(table).insert(rows): one store call; it fails as a whole
InsertRows(r, table, rows) ==
    IF r.n + 1 = r.fault THEN [Fail(r, StoreError) EXCEPT !.n = @ + 1]
    ELSE IF ~r.admin THEN [Fail(r, PolicyError) EXCEPT !.n = @ + 1]
    ELSE [r EXCEPT !.db[table] = @ \cup rows,
                   !.db.nextId = @ + Cardinality(rows),
                   !.n = @ + 1,
                   !.inserts = @ + 1]

\* The while (true) loop of createQuiz: the quiz row is inserted under slug,
\* or under slug with "-2" appended once for every unique violation (23505)
RECURSIVE InsertQuiz(_, _)
InsertQuiz(r, slug) ==
    IF r.n + 1 = r.fault
    THEN [Fail(r, StoreError) EXCEPT !.n = @ + 1, !.attempts = @ + 1]
    ELSE IF ~r.admin
    THEN [Fail(r, PolicyError) EXCEPT !.n = @ + 1, !.attempts = @ + 1]
    ELSE IF \E quizRow \in r.db.quizzes : quizRow.slug = slug
    THEN Const([r EXCEPT !.n = @ + 1, !.attempts = @ + 1],
               LAMBDA r1 : InsertQuiz(r1, Suffixed(slug)))
    ELSE [r EXCEPT !.db.quizzes = @ \cup {QuizRow(NewQuizId(r.db), slug)},
                   !.n = @ + 1,
                   !.attempts = @ + 1,
                   !.inserts = @ + 1]

\* Mutant of optionsToInsert: options of blank text are inserted too
optionsToInsertUnfiltered(type, options) ==
    IF type = "input" THEN MapSeq(options, InputOption)
    ELSE IF type = "select_gaps" THEN MapSeq(options, SelectGapsOption)
    ELSE [k \in 1..Len(options) |-> [options[k] EXCEPT !.gap_index = NoGap]]

\* optionsToInsert without question_id
optionsToInsert(type, options) ==
    IF type = "input" THEN MapSeq(SelectSeq(options, HasText), InputOption)
    ELSE IF type = "select_gaps" THEN MapSeq(SelectSeq(options, HasText), SelectGapsOption)
    ELSE [k \in 1..Len(options) |-> [options[k] EXCEPT !.gap_index = NoGap]]

\* The desired options with the ids first, first + 1, ... put on those that
\* are inserted
RECURSIVE WithNewIds(_, _, _)
WithNewIds(type, options, first) ==
    IF options = <<>> THEN <<>>
    ELSE IF type \in {"input", "select_gaps"} /\ ~HasText(Head(options))
         THEN <<Head(options)>> \o WithNewIds(type, Tail(options), first)
         ELSE <<[Head(options) EXCEPT !.id = first]>>
              \o WithNewIds(type, Tail(options), first + 1)

\* The body of for (qi ...): the question row, the check of the options of a
\* choice page, the option rows in one insert
CreateQuestion(r, pageId, type, q) ==
    LET questionId == r.db.nextId
    IN  Const(InsertRows(r, "questions",
                         {QuestionRow(questionId, pageId, q.question_title,
                                      OrNull(q.explanation), q.order_index)}),
              LAMBDA r1 :
                  IF ~r1.ok THEN [r |-> r1, saved |-> q]
                  ELSE IF type # "input" /\ type # "select_gaps" /\ Len(q.options) = 0
                  THEN [r |-> [Fail(r1, ChoiceError) EXCEPT !.rejected = questionId],
                        saved |-> [q EXCEPT !.id = questionId]]
                  ELSE
                  LET opts == optionsToInsert(type, q.options)
                      rows == {OptionRow(r1.db.nextId + k - 1, questionId,
                                         opts[k].option_text, opts[k].is_correct,
                                         opts[k].gap_index) : k \in 1..Len(opts)}
                  IN  [r |-> IF Len(opts) > 0 THEN InsertRows(r1, "options", rows)
                             ELSE r1,
                       saved |-> [q EXCEPT !.id = questionId,
                                           !.options = WithNewIds(type, q.options,
                                                                  r1.db.nextId)]])

RECURSIVE CreateQuestions(_, _, _, _, _, _)
CreateQuestions(r, pageId, type, qs, i, saved) ==
    IF i > Len(qs) \/ ~r.ok THEN [r |-> r, saved |-> saved]
    ELSE Const(CreateQuestion(r, pageId, type, qs[i]),
               LAMBDA one : CreateQuestions(one.r, pageId, type, qs, i + 1,
                                            Append(saved, one.saved)))

\* The body of for (pi ...): the page row, then its questions
CreatePage(r, quizId, page) ==
    LET pageId == r.db.nextId
    IN  Const(InsertRows(r, "quiz_pages",
                         {PageRow(pageId, quizId, page.type, OrNull(page.title),
                                  page.order_index)}),
              LAMBDA r1 :
        Const(CreateQuestions(r1, pageId, page.type, page.questions, 1, <<>>),
              LAMBDA made :
                  [r |-> made.r,
                   saved |-> [page EXCEPT !.id = pageId, !.questions = made.saved]]))

RECURSIVE CreatePages(_, _, _, _, _)
CreatePages(r, quizId, ps, i, saved) ==
    IF i > Len(ps) \/ ~r.ok THEN [r |-> r, saved |-> saved]
    ELSE Const(CreatePage(r, quizId, ps[i]),
               LAMBDA one : CreatePages(one.r, quizId, ps, i + 1,
                                        Append(saved, one.saved)))

\* for (i ...) over data.theoryBlocks
RECURSIVE CreateBlocks(_, _, _, _, _)
CreateBlocks(r, quizId, bs, i, saved) ==
    IF i > Len(bs) \/ ~r.ok THEN [r |-> r, saved |-> saved]
    ELSE Const(InsertRows(r, "theory_blocks",
                          {BlockRow(r.db.nextId, quizId, bs[i].type,
                                    BlockContent(bs[i]), bs[i].order_index)}),
               LAMBDA r1 : CreateBlocks(r1, quizId, bs, i + 1,
                                        Append(saved, [bs[i] EXCEPT !.id = r.db.nextId])))

\* createQuiz(data) on the store d: the store it leaves, { ok, error }, and
\* the desired tree with the ids of the rows made for its items
createQuiz(d, data, admin, fault) ==
    LET quizId == NewQuizId(d)
    IN  Const(InsertQuiz(CreateRun(d, admin, fault), trim(data.slug)),
              LAMBDA r0 :
        Const(CreatePages(r0, quizId, data.pages, 1, <<>>),
              LAMBDA paged :
        Const(CreateBlocks(paged.r, quizId, data.theoryBlocks, 1, <<>>),
              LAMBDA theory :
                  [r |-> theory.r,
                   saved |-> [quizId |-> quizId, slug |-> data.slug,
                              pages |-> paged.saved,
                              theoryBlocks |-> theory.saved]])))

\* The quizzes createQuiz is called with: a first page out of NewPages,
\* followed by seed pages up to MaxPages pages, or no page at all
CreatePageLists ==
    {<<>>} \cup
    {Reindex(<<first>> \o [i \in 1..(n - 1) |-> SeedPage(TypeAfter(first.type, i))])
       : first \in NewPages({}), n \in 1..MaxPages}

CreateBlockLists == SeedBlocks \cup {Reindex(bs) : bs \in OneOrNone(NewBlocks)}

\* A slug not in use, the slug of quiz Q2, and that slug untrimmed
CreateSlugs == {<<"t">>, <<"s">>, <<" ", "s">>}

CreateInputs ==
    {[slug |-> slug, pages |-> ps, theoryBlocks |-> bs]
       : slug \in CreateSlugs, ps \in CreatePageLists, bs \in CreateBlockLists}

\* The stores createQuiz starts on: quiz Q2 alone, and quiz Q2 with a quiz
\* Q1 that holds the slug "s-2"
CreateStores ==
    {OtherQuizStore} \cup
    {SeedStore(tree) : tree \in {t \in SeedTrees : /\ Len(t.pages) = 1
                                                   /\ t.pages[1].type = "single"
                                                   /\ t.theoryBlocks # <<>>}}

\* The record kept of a createQuiz invocation
Creation(before, data, result) ==
    [action |-> "createQuiz", before |-> before, data |-> data,
     saved |-> result.saved, admin |-> result.r.admin, fault |-> result.r.fault,
     ok |-> result.r.ok, error |-> result.r.error, n |-> result.r.n,
     inserts |-> result.r.inserts, attempts |-> result.r.attempts,
     rejected |-> result.r.rejected]

\* createQuiz(data), by an administrator or not, every store call succeeding
\* or one of them failing
CreateQuiz ==
    /\ calls = <<>>
    /\ \E data \in CreateInputs, admin \in BOOLEAN :
         \E fault \in 0..createQuiz(db, data, admin, 0).r.n :
           \E result \in {createQuiz(db, data, admin, fault)} :
               /\ db' = result.r.db
               /\ calls' = Append(calls, Creation(db, data, result))
    /\ UNCHANGED <<screenVars, editorVars, runs>>

InitCreate ==
    /\ db \in CreateStores
    /\ calls = <<>>
    /\ runs = NoRuns
    /\ form = NoForm
    /\ quiz = EmptyQuiz
    /\ selected = [q \in QuestionIds |-> <<>>]
    /\ textAnswers = [q \in QuestionIds |-> <<>>]
    /\ checkedPages = {}
    /\ pageIndex = 0
    /\ picked = [q \in QuestionIds |-> [g \in Gaps |-> 0]]

SpecCreate == InitCreate /\ [][CreateQuiz]_vars

\* The desired trees that carry ids of rows of another quiz: the persisted
\* tree of the quiz with, in any combination, the page of the other quiz
\* added with its question and option, its question added to the first
\* page, its option added to the first question, its theory block added;
\* and the tree of the other quiz alone
ForeignTrees(d, quizId, otherId) ==
    LET tree == TreeOf(d, quizId)
        other == TreeOf(d, otherId)
        WithPages(t, on) ==
            IF on THEN [t EXCEPT !.pages = Reindex(@ \o other.pages)] ELSE t
        WithQuestions(t, on) ==
            IF on /\ tree.pages # <<>>
            THEN [t EXCEPT !.pages[1].questions = Reindex(@ \o other.pages[1].questions)]
            ELSE t
        WithOptions(t, on) ==
            IF on /\ tree.pages # <<>>
            THEN [t EXCEPT !.pages[1].questions[1].options =
                               @ \o other.pages[1].questions[1].options]
            ELSE t
        WithBlocks(t, on) ==
            IF on THEN [t EXCEPT !.theoryBlocks = Reindex(@ \o other.theoryBlocks)] ELSE t
    IN  {WithBlocks(WithOptions(WithQuestions(WithPages(tree, p), q), o), b)
           : p, q, o, b \in BOOLEAN}
        \cup {[other EXCEPT !.quizId = quizId]}

\* updateQuiz(data) for quiz Q1 with ids of rows of quiz Q2 in data
UpdateQuizForeign ==
    /\ calls = <<>>
    /\ \E data \in ForeignTrees(db, "Q1", "Q2") :
           \E result \in {updateQuiz(db, data)} :
               /\ db' = result.r.db
               /\ calls' = Append(calls, Invocation(db, data, result))
    /\ UNCHANGED <<screenVars, editorVars, runs>>

\* updateQuiz called with ids of another quiz, on every seed store
SpecForeign == InitAdmin /\ [][UpdateQuizForeign]_vars

\* createQuiz or updateQuiz, then the saved tree submitted again
NextWrite ==
    \/ CreateQuiz
    \/ UpdateQuiz
    \/ Resubmit

\* The two writers of quiz trees, on every seed store
SpecWrite == InitAdmin /\ [][NextWrite]_vars

-----------------------------------------------------------------------------
(* updateQuiz, one store call at a time *)

\* error.message of an insert whose parent row is gone
ForeignKeyError == "insert or update on table violates foreign key constraint"

\* The local variables of an updateQuiz(data) invocation about to issue the
\* store call pc, with the history of the invocation: the store calls issued
\* (n), the rows inserted, the number and the position of the first store
\* call that failed (0: none), the writes issued after it, and what the
\* failed attempt before this one issued (attempt 2 is the re-submission);
\* before is the store at the invocation, rank the place of the invocation
\* among those that have returned, overlaps whether another invocation was
\* under way when this one began
Invoked(data, before, attempt, earlier) ==
    [pc |-> "updateQuizRow", data |-> data, before |-> before,
     attempt |-> attempt, earlier |-> earlier, rank |-> 0, overlaps |-> FALSE,
     pi |-> 0, qi |-> 0, oi |-> 0, bi |-> 0,
     pageId |-> NoId, questionId |-> NoId, opts |-> <<>>,
     existingPages |-> {}, keptPageIds |-> {},
     existingQuestions |-> {}, keptQuestionIds |-> {},
     existingOpts |-> {}, keptOptIds |-> {},
     existingBlocks |-> {}, keptBlockIds |-> {},
     ok |-> TRUE, error |-> "",
     n |-> 0, inserts |-> 0, failed |-> 0, failedCall |-> "", writesAfter |-> 0]

\* One more store call is issued
Issued(p, fails, isWrite) ==
    [p EXCEPT !.n = @ + 1,
              !.failed = IF fails /\ @ = 0 THEN p.n + 1 ELSE @,
              !.failedCall = IF fails /\ p.failed = 0 THEN p.pc ELSE @,
              !.writesAfter = IF isWrite /\ p.failed # 0 THEN @ + 1 ELSE @]

\* return { ok: false, error: message }
Returns(p, message) == [p EXCEPT !.pc = "done", !.ok = FALSE, !.error = message]

\* return { ok: true }
ReturnsOk(p) == [p EXCEPT !.pc = "done"]

Finished(p) == p.pc = "done"

\* toDelB and pathsToRemove
BlocksToDelete(p) == {b \in p.existingBlocks : b.id \notin p.keptBlockIds}

PathsToRemove(p) ==
    {getStoragePathFromPublicUrl(b.content) :
         b \in {x \in BlocksToDelete(p) : x.type = "image" /\ x.content # <<>>}} \ {""}

\* Where the invocation goes once the loop over theoryBlocks is over
BlocksSynced(p) ==
    IF BlocksToDelete(p) = {} THEN ReturnsOk(p)
    ELSE IF PathsToRemove(p) # {} THEN [p EXCEPT !.pc = "removeAssets"]
    ELSE [p EXCEPT !.pc = "deleteBlocks"]

\* for (const b of theoryBlocks): the next block, or the end of the loop
NextBlockCall(p) ==
    IF p.bi < Len(p.data.theoryBlocks) THEN [p EXCEPT !.pc = "block", !.bi = @ + 1]
    ELSE BlocksSynced(p)

\* Where the invocation goes once the loop over data.pages is over
PagesSynced(p) ==
    IF p.existingPages \ p.keptPageIds # {} THEN [p EXCEPT !.pc = "deletePages"]
    ELSE [p EXCEPT !.pc = "selectBlocks"]

\* for (const page of data.pages): the next page, or the end of the loop
NextPageCall(p) ==
    IF p.pi < Len(p.data.pages) THEN [p EXCEPT !.pc = "page", !.pi = @ + 1]
    ELSE PagesSynced(p)

\* Where the invocation goes once the loop over page.questions is over
QuestionsSynced(p) ==
    IF p.existingQuestions \ p.keptQuestionIds # {}
    THEN [p EXCEPT !.pc = "deleteQuestions"]
    ELSE NextPageCall(p)

\* for (const q of page.questions): the next question, or the end of the loop
NextQuestionCall(p) ==
    IF p.qi < Len(p.data.pages[p.pi].questions)
    THEN [p EXCEPT !.pc = "question", !.qi = @ + 1]
    ELSE QuestionsSynced(p)

\* Where the invocation goes once the loop over optionsToSync is over
OptionsSynced(p) ==
    IF p.existingOpts \ p.keptOptIds # {} THEN [p EXCEPT !.pc = "deleteOptions"]
    ELSE NextQuestionCall(p)

\* for (const o of optionsToSync): the next option, or the end of the loop
NextOptionCall(p) ==
    IF p.oi < Len(p.opts) THEN [p EXCEPT !.pc = "option", !.oi = @ + 1]
    ELSE OptionsSynced(p)

\* The invocation and the store after a store call
After(p, d) == [p |-> p, db |-> d]

\* from("quizzes").update(...).eq("id", data.quizId)
UpdateQuizRowCall(p, d, fails) ==
    LET p1 == Issued(p, fails, TRUE)
    IN  IF fails THEN After(Returns(p1, StoreError), d)
        ELSE After([p1 EXCEPT !.pc = "selectPages"], d)

\* from("quiz_pages").select("id").eq("quiz_id", data.quizId); its error is
\* not looked at, and its data is null when it fails
SelectPagesCall(p, d, fails) ==
    LET p1 == Issued(p, fails, FALSE)
        existingPages == IF fails THEN {}
                         ELSE Ids({pg \in d.quiz_pages : pg.quiz_id = p.data.quizId})
    IN  After(NextPageCall([p1 EXCEPT !.existingPages = existingPages,
                                      !.keptPageIds = {},
                                      !.pi = 0]), d)

\* The update or the insert of the page row
PageCall(p, d, fails) ==
    LET p1 == Issued(p, fails, TRUE)
        page == p.data.pages[p.pi]
        Change(row) == [row EXCEPT !.type = page.type,
                                   !.title = OrNull(page.title),
                                   !.order_index = page.order_index]
        inserted == PageRow(d.nextId, p.data.quizId, page.type, OrNull(page.title),
                            page.order_index)
    IN  IF fails THEN After(Returns(p1, StoreError), d)
        ELSE IF IsKept(page.id, p.existingPages)
        THEN After([p1 EXCEPT !.pc = "selectQuestions",
                              !.pageId = page.id,
                              !.keptPageIds = @ \cup {page.id}],
                   [d EXCEPT !.quiz_pages = UpdateRows(@, page.id, Change)])
        ELSE IF p.data.quizId \notin Ids(d.quizzes)
        THEN After(Returns(p1, ForeignKeyError), d)
        ELSE After([p1 EXCEPT !.pc = "selectQuestions",
                              !.pageId = inserted.id,
                              !.keptPageIds = @ \cup {inserted.id},
                              !.inserts = @ + 1],
                   [d EXCEPT !.quiz_pages = @ \cup {inserted}, !.nextId = @ + 1])

\* from("questions").select("id").eq("page_id", pageId); its error is not
\* looked at
SelectQuestionsCall(p, d, fails) ==
    LET p1 == Issued(p, fails, FALSE)
        existingQuestions == IF fails THEN {}
                             ELSE Ids({q \in d.questions : q.page_id = p.pageId})
    IN  After(NextQuestionCall([p1 EXCEPT !.existingQuestions = existingQuestions,
                                          !.keptQuestionIds = {},
                                          !.qi = 0]), d)

\* The update or the insert of the question row
QuestionCall(p, d, fails) ==
    LET p1 == Issued(p, fails, TRUE)
        q == p.data.pages[p.pi].questions[p.qi]
        Change(row) == [row EXCEPT !.question_title = q.question_title,
                                   !.explanation = OrNull(q.explanation),
                                   !.order_index = q.order_index]
        inserted == QuestionRow(d.nextId, p.pageId, q.question_title,
                                OrNull(q.explanation), q.order_index)
    IN  IF fails THEN After(Returns(p1, StoreError), d)
        ELSE IF IsKept(q.id, p.existingQuestions)
        THEN After([p1 EXCEPT !.pc = "selectOptions",
                              !.questionId = q.id,
                              !.keptQuestionIds = @ \cup {q.id}],
                   [d EXCEPT !.questions = UpdateRows(@, q.id, Change)])
        ELSE IF p.pageId \notin Ids(d.quiz_pages)
        THEN After(Returns(p1, ForeignKeyError), d)
        ELSE After([p1 EXCEPT !.pc = "selectOptions",
                              !.questionId = inserted.id,
                              !.keptQuestionIds = @ \cup {inserted.id},
                              !.inserts = @ + 1],
                   [d EXCEPT !.questions = @ \cup {inserted}, !.nextId = @ + 1])

\* from("options").select("id").eq("question_id", questionId), its error not
\* looked at; then optionsToSync and the check of a choice page
SelectOptionsCall(p, d, fails) ==
    LET p1 == Issued(p, fails, FALSE)
        type == p.data.pages[p.pi].type
        existingOpts == IF fails THEN {}
                        ELSE Ids({o \in d.options : o.question_id = p.questionId})
        opts == optionsToSync(type, p.data.pages[p.pi].questions[p.qi].options)
    IN  IF type # "input" /\ type # "select_gaps" /\ Len(opts) = 0
        THEN After(Returns(p1, ChoiceError), d)
        ELSE After(NextOptionCall([p1 EXCEPT !.existingOpts = existingOpts,
                                             !.keptOptIds = {},
                                             !.opts = opts,
                                             !.oi = 0]), d)

\* The update or the insert of the option row
OptionCall(p, d, fails) ==
    LET p1 == Issued(p, fails, TRUE)
        type == p.data.pages[p.pi].type
        o == p.opts[p.oi]
        isInput == type = "input"
        isGapBased == type = "input" \/ type = "select_gaps"
        correct == IF isInput THEN TRUE ELSE o.is_correct
        Change(row) ==
            [row EXCEPT !.option_text = o.option_text,
                        !.is_correct = correct,
                        !.gap_index = IF isGapBased THEN GapOrZero(o) ELSE @]
        inserted == OptionRow(d.nextId, p.questionId, o.option_text, correct,
                              IF isGapBased THEN GapOrZero(o) ELSE NoGap)
    IN  IF fails THEN After(Returns(p1, StoreError), d)
        ELSE IF IsKept(o.id, p.existingOpts)
        THEN After(NextOptionCall([p1 EXCEPT !.keptOptIds = @ \cup {o.id}]),
                   [d EXCEPT !.options = UpdateRows(@, o.id, Change)])
        ELSE IF p.questionId \notin Ids(d.questions)
        THEN After(Returns(p1, ForeignKeyError), d)
        ELSE After(NextOptionCall([p1 EXCEPT !.keptOptIds = @ \cup {inserted.id},
                                             !.inserts = @ + 1]),
                   [d EXCEPT !.options = @ \cup {inserted}, !.nextId = @ + 1])

\* from("options").delete().in("id", toDel)
DeleteOptionsCall(p, d, fails) ==
    LET p1 == Issued(p, fails, TRUE)
    IN  IF fails THEN After(Returns(p1, StoreError), d)
        ELSE After(NextQuestionCall(p1),
                   DeleteOptions(d, p.existingOpts \ p.keptOptIds))

\* from("questions").delete().in("id", toDelQ)
DeleteQuestionsCall(p, d, fails) ==
    LET p1 == Issued(p, fails, TRUE)
    IN  IF fails THEN After(Returns(p1, StoreError), d)
        ELSE After(NextPageCall(p1),
                   DeleteQuestions(d, p.existingQuestions \ p.keptQuestionIds))

\* from("quiz_pages").delete().in("id", toDelP)
DeletePagesCall(p, d, fails) ==
    LET p1 == Issued(p, fails, TRUE)
    IN  IF fails THEN After(Returns(p1, StoreError), d)
        ELSE After([p1 EXCEPT !.pc = "selectBlocks"],
                   DeletePages(d, p.existingPages \ p.keptPageIds))

\* from("theory_blocks").select("id, type, content").eq("quiz_id",
\* data.quizId); its error is not looked at
SelectBlocksCall(p, d, fails) ==
    LET p1 == Issued(p, fails, FALSE)
        existingBlocks == IF fails THEN {}
                          ELSE {[id |-> b.id, type |-> b.type, content |-> b.content]
                                  : b \in {x \in d.theory_blocks :
                                             x.quiz_id = p.data.quizId}}
    IN  After(NextBlockCall([p1 EXCEPT !.existingBlocks = existingBlocks,
                                       !.keptBlockIds = {},
                                       !.bi = 0]), d)

\* The update or the insert of the theory-block row
BlockCall(p, d, fails) ==
    LET p1 == Issued(p, fails, TRUE)
        b == p.data.theoryBlocks[p.bi]
        content == BlockContent(b)
        Change(row) == [row EXCEPT !.type = b.type, !.content = content,
                                   !.order_index = b.order_index]
        inserted == BlockRow(d.nextId, p.data.quizId, b.type, content, b.order_index)
    IN  IF fails THEN After(Returns(p1, StoreError), d)
        ELSE IF IsKept(b.id, Ids(p.existingBlocks))
        THEN After(NextBlockCall([p1 EXCEPT !.keptBlockIds = @ \cup {b.id}]),
                   [d EXCEPT !.theory_blocks = UpdateRows(@, b.id, Change)])
        ELSE IF p.data.quizId \notin Ids(d.quizzes)
        THEN After(Returns(p1, ForeignKeyError), d)
        ELSE After(NextBlockCall([p1 EXCEPT !.keptBlockIds = @ \cup {inserted.id},
                                            !.inserts = @ + 1]),
                   [d EXCEPT !.theory_blocks = @ \cup {inserted}, !.nextId = @ + 1])

\* storage.from(THEORY_IMAGES_BUCKET).remove(pathsToRemove)
RemoveAssetsCall(p, d, fails) ==
    LET p1 == Issued(p, fails, TRUE)
    IN  IF fails THEN After(Returns(p1, StoreError), d)
        ELSE After([p1 EXCEPT !.pc = "deleteBlocks"],
                   RemoveAssets(d, PathsToRemove(p)))

\* from("theory_blocks").delete().in("id", toDelB.map((x) => x.id))
DeleteBlocksCall(p, d, fails) ==
    LET p1 == Issued(p, fails, TRUE)
    IN  IF fails THEN After(Returns(p1, StoreError), d)
        ELSE After(ReturnsOk(p1), DeleteBlocks(d, Ids(BlocksToDelete(p))))

\* The next store call of the invocation, and what follows it up to the
\* store call after it
StoreCallOf(p, d, fails) ==
    CASE p.pc = "updateQuizRow" -> UpdateQuizRowCall(p, d, fails)
      [] p.pc = "selectPages" -> SelectPagesCall(p, d, fails)
      [] p.pc = "page" -> PageCall(p, d, fails)
      [] p.pc = "selectQuestions" -> SelectQuestionsCall(p, d, fails)
      [] p.pc = "question" -> QuestionCall(p, d, fails)
      [] p.pc = "selectOptions" -> SelectOptionsCall(p, d, fails)
      [] p.pc = "option" -> OptionCall(p, d, fails)
      [] p.pc = "deleteOptions" -> DeleteOptionsCall(p, d, fails)
      [] p.pc = "deleteQuestions" -> DeleteQuestionsCall(p, d, fails)
      [] p.pc = "deletePages" -> DeletePagesCall(p, d, fails)
      [] p.pc = "selectBlocks" -> SelectBlocksCall(p, d, fails)
      [] p.pc = "block" -> BlockCall(p, d, fails)
      [] p.pc = "removeAssets" -> RemoveAssetsCall(p, d, fails)
      [] p.pc = "deleteBlocks" -> DeleteBlocksCall(p, d, fails)

\* What is kept of an attempt that failed, and of no attempt
Attempt(p) ==
    [failed |-> p.failed, failedCall |-> p.failedCall, inserts |-> p.inserts,
     error |-> p.error, n |-> p.n]

NoAttempt == [failed |-> 0, failedCall |-> "", inserts |-> 0, error |-> "", n |-> 0]

\* The stores the invocations start on: quiz Q1 without a page or with one
\* page, single or input, without theory blocks or with two
SaveStores ==
    {SeedStore(tree) : tree \in {t \in SeedTrees :
                                    \/ t.pages = <<>>
                                    \/ /\ Len(t.pages) = 1
                                       /\ t.pages[1].type \in {"single", "input"}}}

\* The page and the block a caller adds
AddedPage == DPage(NoId, "multiple", <<"w">>,
                   <<DQuestion(NoId, PlainTitle, <<>>,
                               <<DOption(NoId, <<"a">>, TRUE, NoGap)>>)>>)

AddedBlock == DBlock(NoId, "text", <<"a">>)

\* The desired trees of the invocations: the persisted tree of quiz Q1 as it
\* is, without its theory blocks, without its pages, with a page added, with
\* a block added
SaveInputs(d) ==
    LET tree == TreeOf(d, "Q1")
    IN  {tree,
         [tree EXCEPT !.theoryBlocks = <<>>],
         [tree EXCEPT !.pages = <<>>],
         [tree EXCEPT !.pages = Reindex(@ \o <<AddedPage>>)],
         [tree EXCEPT !.theoryBlocks = Reindex(@ \o <<AddedBlock>>)]}

\* The stores and the desired trees of two invocations that overlap
RaceStores == SaveStores

RaceInputs(d) == SaveInputs(d)

\* An administrator calls updateQuiz(data)
BeginSave ==
    /\ runs = <<>>
    /\ \E data \in SaveInputs(db) : runs' = <<Invoked(data, db, 1, NoAttempt)>>
    /\ UNCHANGED <<screenVars, editorVars, db, calls>>

\* The invocation, once returned, with its place among the returned ones
Ranked(p, s) ==
    IF Finished(p)
    THEN [p EXCEPT !.rank = 1 + Cardinality({t \in 1..Len(runs) :
                                                t # s /\ Finished(runs[t])})]
    ELSE p

\* Invocation s issues its next store call, which succeeds
StoreCall(s) ==
    /\ ~Finished(runs[s])
    /\ \E result \in {StoreCallOf(runs[s], db, FALSE)} :
           /\ runs' = [runs EXCEPT ![s] = Ranked(result.p, s)]
           /\ db' = result.db
    /\ UNCHANGED <<screenVars, editorVars, calls>>

\* Invocation s issues its next store call, which fails: the first of the
\* invocation to do so
StoreCallFails(s) ==
    /\ ~Finished(runs[s])
    /\ runs[s].failed = 0
    /\ \E result \in {StoreCallOf(runs[s], db, TRUE)} :
           /\ runs' = [runs EXCEPT ![s] = Ranked(result.p, s)]
           /\ db' = result.db
    /\ UNCHANGED <<screenVars, editorVars, calls>>

\* The administrator submits the same desired tree again after a failure
SubmitAgain ==
    /\ Len(runs) = 1
    /\ Finished(runs[1])
    /\ ~runs[1].ok
    /\ runs[1].attempt = 1
    /\ runs' = <<Invoked(runs[1].data, db, 2, Attempt(runs[1]))>>
    /\ UNCHANGED <<screenVars, editorVars, db, calls>>

NextSave ==
    \/ BeginSave
    \/ \E s \in 1..Len(runs) : StoreCall(s)
    \/ \E s \in 1..Len(runs) : StoreCallFails(s)
    \/ SubmitAgain

InitSave ==
    /\ db \in SaveStores
    /\ calls = <<>>
    /\ runs = NoRuns
    /\ form = NoForm
    /\ quiz = EmptyQuiz
    /\ selected = [q \in QuestionIds |-> <<>>]
    /\ textAnswers = [q \in QuestionIds |-> <<>>]
    /\ checkedPages = {}
    /\ pageIndex = 0
    /\ picked = [q \in QuestionIds |-> [g \in Gaps |-> 0]]

\* One administrator saving, store calls failing
SpecSave == InitSave /\ [][NextSave]_vars

\* An administrator calls updateQuiz(data) while at most one other
\* invocation is there, under way or returned
BeginRace ==
    /\ Len(runs) <= 1
    /\ \E data \in RaceInputs(db) :
           runs' = Append(runs, [Invoked(data, db, 1, NoAttempt) EXCEPT
                                    !.overlaps = \E t \in 1..Len(runs) :
                                                     ~Finished(runs[t])])
    /\ UNCHANGED <<screenVars, editorVars, db, calls>>

NextRace ==
    \/ BeginRace
    \/ \E s \in 1..Len(runs) : StoreCall(s)

InitRace ==
    /\ db \in RaceStores
    /\ calls = <<>>
    /\ runs = NoRuns
    /\ form = NoForm
    /\ quiz = EmptyQuiz
    /\ selected = [q \in QuestionIds |-> <<>>]
    /\ textAnswers = [q \in QuestionIds |-> <<>>]
    /\ checkedPages = {}
    /\ pageIndex = 0
    /\ picked = [q \in QuestionIds |-> [g \in Gaps |-> 0]]

\* Two administrators saving the same quiz, every store call succeeding
SpecRace == InitRace /\ [][NextRace]_vars

-----------------------------------------------------------------------------
(* getQuizWithPages, getQuizWithPagesBySlug *)

\* The results a select ... order(key, ascending) can give for the rows: the
\* store fixes no order among rows of equal key
RECURSIVE Orderings(_, _)
Orderings(rows, key) ==
    IF rows = {} THEN {<<>>}
    ELSE LET firsts == {r \in rows : \A x \in rows : r[key] <= x[key]}
         IN  UNION {{<<r>> \o rest : rest \in Orderings(rows \ {r}, key)} : r \in firsts}

\* select("id, question_id, option_text, is_correct")
SelectedOption(o) ==
    [id |-> o.id, question_id |-> o.question_id, option_text |-> o.option_text,
     is_correct |-> o.is_correct]

\* optionsByQuestion[id] ?? []
optionsByQuestion(options, id) ==
    LET Under(o) == o.question_id = id
    IN  SelectSeq(options, Under)

\* Mutant of questionsByPage: the questions are not told apart by page
questionsByAnyPage(questions, options, pid) ==
    [k \in 1..Len(questions) |->
        [id |-> questions[k].id, page_id |-> questions[k].page_id,
         question_title |-> questions[k].question_title,
         explanation |-> questions[k].explanation,
         order_index |-> questions[k].order_index,
         options |-> optionsByQuestion(options, questions[k].id)]]

\* questionsByPage[pid] ?? []
questionsByPage(questions, options, pid) ==
    LET Under(q) == q.page_id = pid
        ofPage == SelectSeq(questions, Under)
    IN  [k \in 1..Len(ofPage) |->
            [id |-> ofPage[k].id, page_id |-> ofPage[k].page_id,
             question_title |-> ofPage[k].question_title,
             explanation |-> ofPage[k].explanation,
             order_index |-> ofPage[k].order_index,
             options |-> optionsByQuestion(options, ofPage[k].id)]]

\* What a read gives: a value, null, or a thrown error
Value(v) == [outcome |-> "value", value |-> v]

ReturnsNull == [outcome |-> "null", value |-> <<>>]

Throws == [outcome |-> "thrown", value |-> <<>>]

\* getQuizWithPages(supabase, quizId) on the store d, when its fault-th query
\* fails (0: none does) and the three ordered selects give pagesData,
\* questions and options
getQuizWithPages(d, quizId, fault, pagesData, questions, options) ==
    IF fault = 1 \/ quizId \notin Ids(d.quizzes) THEN ReturnsNull
    ELSE IF fault = 2 THEN Throws
    ELSE
    LET found == CHOOSE quizRow \in d.quizzes : quizRow.id = quizId
    IN  IF Len(pagesData) = 0
        THEN Value([id |-> found.id, slug |-> found.slug, pages |-> <<>>])
        ELSE IF fault = 3 \/ fault = 4 THEN Throws
        ELSE Value([id |-> found.id, slug |-> found.slug,
                    pages |-> [k \in 1..Len(pagesData) |->
                                 [id |-> pagesData[k].id,
                                  quiz_id |-> pagesData[k].quiz_id,
                                  type |-> pagesData[k].type,
                                  title |-> pagesData[k].title,
                                  order_index |-> pagesData[k].order_index,
                                  questions |-> questionsByPage(questions, options,
                                                                pagesData[k].id)]]])

\* getQuizWithPagesBySlug(supabase, slug): fault 1 is its own query, the
\* later ones are those of getQuizWithPages
getQuizWithPagesBySlug(d, slug, fault, pagesData, questions, options) ==
    IF fault = 1 \/ slug \notin {quizRow.slug : quizRow \in d.quizzes} THEN ReturnsNull
    ELSE getQuizWithPages(d, (CHOOSE quizRow \in d.quizzes : quizRow.slug = slug).id,
                          IF fault = 0 THEN 0 ELSE fault - 1,
                          pagesData, questions, options)

\* A quiz with a page without questions and a question without options
SparseTree ==
    [quizId |-> "Q1",
     pages |-> Reindex(<<DPage(NoId, "single", <<>>, <<>>),
                         DPage(NoId, "input", <<"w">>,
                               Reindex(<<DQuestion(NoId, OneGapTitle, <<>>, <<>>),
                                         DQuestion(NoId, OneGapTitle, <<>>,
                                                   SeedOptions("input"))>>))>>),
     theoryBlocks |-> <<>>]

\* A quiz whose only page has no questions
EmptyPageTree ==
    [quizId |-> "Q1", pages |-> <<DPage(NoId, "single", <<>>, <<>>)>>,
     theoryBlocks |-> <<>>]

\* The stores that are read: quiz Q2 with quiz Q1 as first saved
ReadStores == {SeedStore(tree) : tree \in SeedTrees \cup {SparseTree, EmptyPageTree}}

\* The selects of the rows of the quiz, each in one of the orders the store
\* can give
PagesSelected(d, quizId) ==
    Orderings({pg \in d.quiz_pages : pg.quiz_id = quizId}, "order_index")

QuestionsSelected(d, quizId) ==
    LET pageIds == Ids({pg \in d.quiz_pages : pg.quiz_id = quizId})
    IN  Orderings({q \in d.questions : q.page_id \in pageIds}, "order_index")

\* in("question_id", [""]), sent when there is no question, matches no row
OptionsSelected(d, quizId) ==
    LET pageIds == Ids({pg \in d.quiz_pages : pg.quiz_id = quizId})
        questionIds == Ids({q \in d.questions : q.page_id \in pageIds})
    IN  Orderings({SelectedOption(o) : o \in {x \in d.options :
                                               x.question_id \in questionIds}},
                  "question_id")

\* The quizzes asked for: Q1 and Q2 are there, Q3 is not
ReadIds == {"Q1", "Q2", "Q3"}

\* The slugs asked for: those of Q2 and Q1, and one no quiz has
ReadSlugs == {<<"s">>, <<"s", "-", "2">>, <<"t">>}

\* The record kept of a read
Reading(action, key, quizId, fault, result) ==
    [action |-> action, key |-> key, quizId |-> quizId, fault |-> fault,
     outcome |-> result.outcome, value |-> result.value]

\* A page calls getQuizWithPages(supabase, quizId); one of its queries may fail
GetQuizWithPages ==
    /\ calls = <<>>
    /\ \E quizId \in ReadIds, fault \in 0..4 :
         \E pagesData \in PagesSelected(db, quizId),
            questions \in QuestionsSelected(db, quizId),
            options \in OptionsSelected(db, quizId) :
           calls' = <<Reading("getQuizWithPages", quizId, quizId, fault,
                              getQuizWithPages(db, quizId, fault, pagesData,
                                               questions, options))>>
    /\ UNCHANGED <<screenVars, editorVars, db, runs>>

\* The quiz the slug resolves to, "" when there is none
Resolved(d, slug) ==
    IF \E quizRow \in d.quizzes : quizRow.slug = slug
    THEN (CHOOSE quizRow \in d.quizzes : quizRow.slug = slug).id
    ELSE ""

\* The route /quiz/[slug] calls getQuizWithPagesBySlug(supabase, slug)
GetQuizWithPagesBySlug ==
    /\ calls = <<>>
    /\ \E slug \in ReadSlugs, fault \in 0..5 :
         \E quizId \in {Resolved(db, slug)} :
         \E pagesData \in PagesSelected(db, quizId),
            questions \in QuestionsSelected(db, quizId),
            options \in OptionsSelected(db, quizId) :
           calls' = <<Reading("getQuizWithPagesBySlug", slug, quizId, fault,
                              getQuizWithPagesBySlug(db, slug, fault, pagesData,
                                                     questions, options))>>
    /\ UNCHANGED <<screenVars, editorVars, db, runs>>

NextRead ==
    \/ GetQuizWithPages
    \/ GetQuizWithPagesBySlug

InitRead ==
    /\ db \in ReadStores
    /\ calls = <<>>
    /\ runs = NoRuns
    /\ form = NoForm
    /\ quiz = EmptyQuiz
    /\ selected = [q \in QuestionIds |-> <<>>]
    /\ textAnswers = [q \in QuestionIds |-> <<>>]
    /\ checkedPages = {}
    /\ pageIndex = 0
    /\ picked = [q \in QuestionIds |-> [g \in Gaps |-> 0]]

\* The read path on a store at rest
SpecRead == InitRead /\ [][NextRead]_vars

-----------------------------------------------------------------------------
(* The immediate actions: deleteTheoryBlock, deleteQuizPage, deleteQuestion, *)
(* deleteOption, uploadTheoryImage                                          *)

Unauthorized == "Unauthorized"

BlockNotFound == "Block not found"

NoFileProvided == "No file provided"

TypeNotAllowed == "Allowed types: JPEG, PNG, GIF, WebP"

\* What an immediate action leaves and returns: the store, { ok, error }, and
\* the store calls it issued, in order
Outcome(d, ok, error, issued) ==
    [db |-> d, ok |-> ok, error |-> error, issued |-> issued]

\* .select(...).eq("id", id).single(): the row, or no row
RowsById(rows, id) == {row \in rows : row.id = id}

\* Mutant of deleteQuizPage: the caller is not asked to be an administrator
deleteQuizPageUnguarded(d, pageId, admin, fails) ==
    IF fails = "delete"
    THEN Outcome(d, FALSE, StoreError, <<"selectPage", "delete">>)
    ELSE Outcome(DeletePages(d, {pageId}), TRUE, "", <<"selectPage", "delete">>)

\* deleteQuizPage(pageId); fails names the store call that fails ("": none).
\* The select only feeds revalidatePath, its error is not read
deleteQuizPage(d, pageId, admin, fails) ==
    IF ~admin THEN Outcome(d, FALSE, Unauthorized, <<>>)
    ELSE IF fails = "delete"
    THEN Outcome(d, FALSE, StoreError, <<"selectPage", "delete">>)
    ELSE Outcome(DeletePages(d, {pageId}), TRUE, "", <<"selectPage", "delete">>)

\* The selects of deleteQuestion: the question's page_id and, when there is
\* one, the page's quiz_id
QuestionSelects(d, questionId, fails) ==
    IF fails # "selectQuestion" /\ RowsById(d.questions, questionId) # {}
    THEN <<"selectQuestion", "selectPage">>
    ELSE <<"selectQuestion">>

\* deleteQuestion(questionId)
deleteQuestion(d, questionId, admin, fails) ==
    IF ~admin THEN Outcome(d, FALSE, Unauthorized, <<>>)
    ELSE IF fails = "delete"
    THEN Outcome(d, FALSE, StoreError,
                 Append(QuestionSelects(d, questionId, fails), "delete"))
    ELSE Outcome(DeleteQuestions(d, {questionId}), TRUE, "",
                 Append(QuestionSelects(d, questionId, fails), "delete"))

\* The selects of deleteOption: the option's question_id, then the selects
\* of that question
OptionSelects(d, optionId, fails) ==
    IF fails # "selectOption" /\ RowsById(d.options, optionId) # {}
    THEN <<"selectOption">>
         \o QuestionSelects(d, (CHOOSE o \in RowsById(d.options, optionId) : TRUE).question_id,
                            fails)
    ELSE <<"selectOption">>

\* deleteOption(optionId)
deleteOption(d, optionId, admin, fails) ==
    IF ~admin THEN Outcome(d, FALSE, Unauthorized, <<>>)
    ELSE IF fails = "delete"
    THEN Outcome(d, FALSE, StoreError,
                 Append(OptionSelects(d, optionId, fails), "delete"))
    ELSE Outcome(DeleteOptions(d, {optionId}), TRUE, "",
                 Append(OptionSelects(d, optionId, fails), "delete"))

\* block.type === "image" && block.content, and the URL resolves to a path of
\* the bucket
HasAsset(block) ==
    /\ block.type = "image"
    /\ block.content # <<>>
    /\ getStoragePathFromPublicUrl(block.content) # ""

\* Mutant of RemoveThenDelete: the row is deleted whether the asset was
\* removed or not
DeleteDespiteRemoval(d, block, fails) ==
    IF fails = "delete"
    THEN Outcome(RemoveAssets(d, {getStoragePathFromPublicUrl(block.content)}),
                 FALSE, StoreError, <<"select", "remove", "delete">>)
    ELSE IF fails = "remove"
    THEN Outcome(DeleteBlocks(d, {block.id}), FALSE, StoreError,
                 <<"select", "remove", "delete">>)
    ELSE Outcome(DeleteBlocks(RemoveAssets(d, {getStoragePathFromPublicUrl(block.content)}),
                              {block.id}),
                 TRUE, "", <<"select", "remove", "delete">>)

\* deleteTheoryBlock, from the storage removal on, for an image block whose
\* asset is in the bucket
RemoveThenDelete(d, block, fails) ==
    IF fails = "remove"
    THEN Outcome(d, FALSE, StoreError, <<"select", "remove">>)
    ELSE IF fails = "delete"
    THEN Outcome(RemoveAssets(d, {getStoragePathFromPublicUrl(block.content)}),
                 FALSE, StoreError, <<"select", "remove", "delete">>)
    ELSE Outcome(DeleteBlocks(RemoveAssets(d, {getStoragePathFromPublicUrl(block.content)}),
                              {block.id}),
                 TRUE, "", <<"select", "remove", "delete">>)

\* deleteTheoryBlock(blockId)
deleteTheoryBlock(d, blockId, admin, fails) ==
    IF ~admin THEN Outcome(d, FALSE, Unauthorized, <<>>)
    ELSE IF fails = "select" THEN Outcome(d, FALSE, StoreError, <<"select">>)
    ELSE IF RowsById(d.theory_blocks, blockId) = {}
    THEN Outcome(d, FALSE, BlockNotFound, <<"select">>)
    ELSE LET block == CHOOSE b \in RowsById(d.theory_blocks, blockId) : TRUE
         IN  IF HasAsset(block) THEN RemoveThenDelete(d, block, fails)
             ELSE IF fails = "delete"
             THEN Outcome(d, FALSE, StoreError, <<"select", "delete">>)
             ELSE Outcome(DeleteBlocks(d, {blockId}), TRUE, "", <<"select", "delete">>)

\* The files uploadTheoryImage is called with: none, a text file, an image
Files == {"", "notes.txt", "c.png"}

\* allowed.includes(file.type)
IsImage(file) == file = "c.png"

\* `theory/${quizId}/${crypto.randomUUID()}${ext}`: a path not in the bucket
UploadPaths == <<"u1.png", "u2.png">>

NewPath(d) ==
    UploadPaths[CHOOSE i \in 1..Len(UploadPaths) :
                    /\ UploadPaths[i] \notin d.storage
                    /\ \A j \in 1..(i - 1) : UploadPaths[j] \in d.storage]

\* uploadTheoryImage(formData)
uploadTheoryImage(d, file, admin, fails) ==
    IF ~admin THEN Outcome(d, FALSE, Unauthorized, <<>>)
    ELSE IF file = "" THEN Outcome(d, FALSE, NoFileProvided, <<>>)
    ELSE IF ~IsImage(file) THEN Outcome(d, FALSE, TypeNotAllowed, <<>>)
    ELSE IF fails = "upload" THEN Outcome(d, FALSE, StoreError, <<"upload">>)
    ELSE Outcome([d EXCEPT !.storage = @ \cup {NewPath(d)}], TRUE, "", <<"upload">>)

\* The record kept of an immediate action
Immediate(action, arg, admin, fails, before, outcome) ==
    [action |-> action, arg |-> arg, admin |-> admin, fails |-> fails,
     before |-> before, ok |-> outcome.ok, error |-> outcome.error,
     issued |-> outcome.issued]

\* The immediate actions are called with the id of a row or with an id no
\* row has
DeleteQuizPage ==
    /\ calls = <<>>
    /\ \E pageId \in Ids(db.quiz_pages) \cup {NoId}, admin \in BOOLEAN,
          fails \in {"", "selectPage", "delete"} :
         \E outcome \in {deleteQuizPage(db, pageId, admin, fails)} :
             /\ db' = outcome.db
             /\ calls' = <<Immediate("deleteQuizPage", pageId, admin, fails, db, outcome)>>
    /\ UNCHANGED <<screenVars, editorVars, runs>>

DeleteQuestion ==
    /\ calls = <<>>
    /\ \E questionId \in Ids(db.questions) \cup {NoId}, admin \in BOOLEAN,
          fails \in {"", "selectQuestion", "selectPage", "delete"} :
         \E outcome \in {deleteQuestion(db, questionId, admin, fails)} :
             /\ db' = outcome.db
             /\ calls' = <<Immediate("deleteQuestion", questionId, admin, fails, db, outcome)>>
    /\ UNCHANGED <<screenVars, editorVars, runs>>

DeleteOption ==
    /\ calls = <<>>
    /\ \E optionId \in Ids(db.options) \cup {NoId}, admin \in BOOLEAN,
          fails \in {"", "selectOption", "delete"} :
         \E outcome \in {deleteOption(db, optionId, admin, fails)} :
             /\ db' = outcome.db
             /\ calls' = <<Immediate("deleteOption", optionId, admin, fails, db, outcome)>>
    /\ UNCHANGED <<screenVars, editorVars, runs>>

DeleteTheoryBlock ==
    /\ calls = <<>>
    /\ \E blockId \in Ids(db.theory_blocks) \cup {NoId}, admin \in BOOLEAN,
          fails \in {"", "select", "remove", "delete"} :
         \E outcome \in {deleteTheoryBlock(db, blockId, admin, fails)} :
             /\ db' = outcome.db
             /\ calls' = <<Immediate("deleteTheoryBlock", blockId, admin, fails, db, outcome)>>
    /\ UNCHANGED <<screenVars, editorVars, runs>>

UploadTheoryImage ==
    /\ calls = <<>>
    /\ \E file \in Files, admin \in BOOLEAN, fails \in {"", "upload"} :
         \E outcome \in {uploadTheoryImage(db, file, admin, fails)} :
             /\ db' = outcome.db
             /\ calls' = <<Immediate("uploadTheoryImage", file, admin, fails, db, outcome)>>
    /\ UNCHANGED <<screenVars, editorVars, runs>>

\* createQuiz with a page and a block, every store call succeeding or one of
\* them failing
CreateSmallQuiz ==
    /\ calls = <<>>
    /\ \E data \in {[slug |-> <<"s">>, pages |-> Reindex(<<AddedPage>>),
                     theoryBlocks |-> Reindex(<<AddedBlock>>)]} :
         \E fault \in 0..createQuiz(db, data, TRUE, 0).r.n :
           \E result \in {createQuiz(db, data, TRUE, fault)} :
               /\ db' = result.r.db
               /\ calls' = <<Creation(db, data, result)>>
    /\ UNCHANGED <<screenVars, editorVars, runs>>

\* The stores the administrator acts on: quiz Q1 with a select_gaps page and
\* its two theory blocks, next to quiz Q2
AdminStores ==
    {SeedStore(tree) : tree \in {t \in SeedTrees :
                                    /\ Len(t.pages) = 1
                                    /\ t.pages[1].type = "select_gaps"
                                    /\ t.theoryBlocks # <<>>}}

NextAdmin ==
    \/ DeleteQuizPage
    \/ DeleteQuestion
    \/ DeleteOption
    \/ DeleteTheoryBlock
    \/ UploadTheoryImage
    \/ CreateSmallQuiz
    \/ BeginSave
    \/ \E s \in 1..Len(runs) : StoreCall(s)
    \/ \E s \in 1..Len(runs) : StoreCallFails(s)

InitAdminActions ==
    /\ db \in AdminStores
    /\ calls = <<>>
    /\ runs = NoRuns
    /\ form = NoForm
    /\ quiz = EmptyQuiz
    /\ selected = [q \in QuestionIds |-> <<>>]
    /\ textAnswers = [q \in QuestionIds |-> <<>>]
    /\ checkedPages = {}
    /\ pageIndex = 0
    /\ picked = [q \in QuestionIds |-> [g \in Gaps |-> 0]]

\* An immediate action or a createQuiz before, after or between the store
\* calls of an updateQuiz whose store calls may fail
SpecAdmin == InitAdminActions /\ [][NextAdmin]_vars

-----------------------------------------------------------------------------
(* EditQuizScreen: the form, its validation, its handlers *)

\* most operations of the administrator in one editor session
MaxEdits == 3

\* { option_text: "", is_correct, gap_index }: an option added in the form
BlankOption(correct, gap) == DOption(NoId, <<>>, correct, gap)

\* defaultOption(option, gapIndex) for an option of the loaded quiz
defaultOption(o) == [o EXCEPT !.gap_index = GapOrZero(o)]

\* defaultQuestion(q, orderIndex) for a question of the loaded quiz
defaultQuestion(q, orderIndex) ==
    [q EXCEPT !.order_index = orderIndex,
              !.options = IF Len(q.options) > 0 THEN MapSeq(q.options, defaultOption)
                          ELSE <<BlankOption(TRUE, 0)>>]

\* defaultQuestion(undefined, orderIndex): the question Add question appends
AddedQuestion(orderIndex) ==
    [DQuestion(NoId, <<>>, <<>>, <<BlankOption(TRUE, 0)>>) EXCEPT
        !.order_index = orderIndex]

\* defaultPage(p, pageIndex) for a page of the loaded quiz
defaultPage(p, index) ==
    [p EXCEPT !.order_index = index,
              !.questions =
                  IF Len(p.questions) > 0
                  THEN [i \in 1..Len(p.questions) |-> defaultQuestion(p.questions[i], i - 1)]
                  ELSE <<DQuestion(NoId, <<>>, <<>>, <<BlankOption(FALSE, 0)>>)>>]

\* defaultPage(undefined, pageIndex): the page Add page appends
DefaultPage(index) ==
    [DPage(NoId, "single", <<>>,
           <<DQuestion(NoId, <<>>, <<>>, <<BlankOption(FALSE, 0)>>)>>) EXCEPT
        !.order_index = index]

\* defaultValues of useForm and the initial theoryBlocks state, for the quiz
\* the page has loaded
LoadedForm(tree) ==
    [pages |-> IF Len(tree.pages) > 0
               THEN [i \in 1..Len(tree.pages) |-> defaultPage(tree.pages[i], i - 1)]
               ELSE <<DefaultPage(0)>>,
     theoryBlocks |-> tree.theoryBlocks,
     edits |-> 0]

\* (o.gap_index ?? 0) === g && (o.option_text ?? "").trim()
AnswersGap(o, g) == GapOrZero(o) = g /\ HasText(o)

\* The gaps of the template of a question, from 0
GapsOf(q) == 0..(gapCount(q.question_title) - 1)

\* Mutant of missingGaps: the last gap of the template is not looked at
missingGapsButLast(q) ==
    {g + 1 : g \in {x \in 0..(gapCount(q.question_title) - 2) :
                      ~\E k \in 1..Len(q.options) : AnswersGap(q.options[k], x)}}

\* missingGaps of superRefine, as the numbers g + 1
missingGaps(q) ==
    {g + 1 : g \in {x \in GapsOf(q) :
                      ~\E k \in 1..Len(q.options) : AnswersGap(q.options[k], x)}}

\* missingCorrect of superRefine
missingCorrect(q) ==
    {g + 1 : g \in {x \in GapsOf(q) :
                      /\ \E k \in 1..Len(q.options) : AnswersGap(q.options[k], x)
                      /\ ~\E k \in 1..Len(q.options) :
                              AnswersGap(q.options[k], x) /\ q.options[k].is_correct}}

Issue(question, message, gaps) ==
    [question |-> question, message |-> message, gaps |-> gaps]

\* The issues pageSchema.superRefine adds for a page; question is the index
\* in the path of the issue, 0 for the path ["questions"]
Refinements(p) ==
    IF p.type = "input"
    THEN {Issue(i, "Add at least one correct answer", missingGaps(p.questions[i]))
            : i \in {j \in 1..Len(p.questions) : missingGaps(p.questions[j]) # {}}}
    ELSE IF p.type = "select_gaps"
    THEN {Issue(i, "Add at least one option", missingGaps(p.questions[i]))
            : i \in {j \in 1..Len(p.questions) : missingGaps(p.questions[j]) # {}}}
         \cup
         {Issue(i, "Mark at least one correct option", missingCorrect(p.questions[i]))
            : i \in {j \in 1..Len(p.questions) :
                       /\ missingCorrect(p.questions[j]) # {}
                       /\ missingGaps(p.questions[j]) = {}}}
    ELSE IF \E i \in 1..Len(p.questions) : Len(p.questions[i].options) = 0
    THEN {Issue(0, "At least one option", {})}
    ELSE {}

\* The issues of pageSchema: questionSchema (question_title min 1), the
\* questions array (min 1), and the refinement
PageIssues(p) ==
    {Issue(i, "Required", {})
       : i \in {j \in 1..Len(p.questions) : p.questions[j].question_title = <<>>}}
    \cup (IF Len(p.questions) = 0 THEN {Issue(0, "At least one question", {})} ELSE {})
    \cup Refinements(p)

\* The issues of formSchema, each with the index of its page (0: the pages
\* array); the quiz title and the slug are taken to be valid
FormIssues(f) ==
    UNION {{[page |-> i, issue |-> x] : x \in PageIssues(f.pages[i])}
             : i \in 1..Len(f.pages)}
    \cup (IF Len(f.pages) = 0
          THEN {[page |-> 0, issue |-> Issue(0, "Add at least one page", {})]}
          ELSE {})

\* The options onSubmit sends for a question of a page of the type
SubmittedOptions(type, options) ==
    IF type = "input" THEN MapSeq(SelectSeq(options, HasText), InputOption)
    ELSE IF type = "select_gaps"
    THEN MapSeq(SelectSeq(options, HasText), SelectGapsOption)
    ELSE [k \in 1..Len(options) |-> [options[k] EXCEPT !.gap_index = NoGap]]

\* Mutant of SubmittedPages: the order_index of the form is sent
SubmittedPagesAsHeld(ps) ==
    [pi \in 1..Len(ps) |->
        [ps[pi] EXCEPT
            !.questions =
                [qi \in 1..Len(ps[pi].questions) |->
                    [ps[pi].questions[qi] EXCEPT
                        !.options = SubmittedOptions(ps[pi].type, @)]]]]

\* data.pages.map((p, pi) => ...) of onSubmit: order_index is the position
SubmittedPages(ps) ==
    [pi \in 1..Len(ps) |->
        [ps[pi] EXCEPT
            !.order_index = pi - 1,
            !.questions =
                [qi \in 1..Len(ps[pi].questions) |->
                    [ps[pi].questions[qi] EXCEPT
                        !.order_index = qi - 1,
                        !.options = SubmittedOptions(ps[pi].type, @)]]]]

\* The argument of updateQuiz in onSubmit
Submitted(f, quizId) ==
    [quizId |-> quizId,
     pages |-> SubmittedPages(f.pages),
     theoryBlocks |-> Reindex(f.theoryBlocks)]

\* What is kept of the last operation that called the server: the issues the
\* resolver reported and the result the action returned
Result(action, issues, ok, error) ==
    [action |-> action, issues |-> issues, ok |-> ok, error |-> error]

\* A list without its item at index
Without(items, index) ==
    [i \in 1..(Len(items) - 1) |-> IF i < index THEN items[i] ELSE items[i + 1]]

\* One more operation of the administrator
Edited(f) == [f EXCEPT !.edits = @ + 1]

\* The quiz the editor is open on
EditedQuiz == "Q1"

\* Texts and templates the administrator types
EditorTexts == {<<>>, <<"a">>}

EditorTitles == {OneGapTitle, TwoGapTitle}

\* Is the form open, with room for one more operation
Editing == form # NoForm /\ form.edits < MaxEdits

\* form.handleSubmit(onSubmit): the form is validated; when it has no issue
\* updateQuiz is called with the submitted tree
Save ==
    /\ Editing
    /\ IF FormIssues(form) # {}
       THEN /\ db' = db
            /\ calls' = <<Result("save", FormIssues(form), FALSE, "")>>
       ELSE \E result \in {updateQuiz(db, Submitted(form, EditedQuiz))} :
                /\ db' = result.r.db
                /\ calls' = <<Result("save", {}, result.r.ok, result.r.error)>>
    /\ form' = Edited(form)
    /\ UNCHANGED <<screenVars, runs>>

\* The question_title input of a question
SetQuestionTitle ==
    /\ Editing
    /\ \E pi \in 1..Len(form.pages) :
         \E qi \in 1..Len(form.pages[pi].questions), title \in EditorTitles :
             form' = Edited([form EXCEPT !.pages[pi].questions[qi].question_title = title])
    /\ UNCHANGED <<screenVars, storeVars>>

\* The option_text input of an option; on input and select_gaps pages only
\* the options of the gaps of the template are shown
Shown(p, q, o) ==
    p.type \in {"single", "multiple"} \/ GapOrZero(o) \in GapsOf(q)

SetOptionText ==
    /\ Editing
    /\ \E pi \in 1..Len(form.pages) :
         \E qi \in 1..Len(form.pages[pi].questions) :
           \E oi \in 1..Len(form.pages[pi].questions[qi].options), text \in EditorTexts :
               /\ Shown(form.pages[pi], form.pages[pi].questions[qi],
                        form.pages[pi].questions[qi].options[oi])
               /\ form' = Edited([form EXCEPT
                                     !.pages[pi].questions[qi].options[oi].option_text = text])
    /\ UNCHANGED <<screenVars, storeVars>>

\* onCheckedChange of the Correct checkbox: on a single page checking an
\* option unchecks the others
Checked(type, options, oi, checked) ==
    IF type = "single" /\ checked
    THEN [i \in 1..Len(options) |-> [options[i] EXCEPT !.is_correct = (i = oi)]]
    ELSE [options EXCEPT ![oi].is_correct = checked]

SetCorrect ==
    /\ Editing
    /\ \E pi \in 1..Len(form.pages) :
         \E qi \in 1..Len(form.pages[pi].questions) :
           \E oi \in 1..Len(form.pages[pi].questions[qi].options), checked \in BOOLEAN :
               /\ form.pages[pi].type # "input"
               /\ Shown(form.pages[pi], form.pages[pi].questions[qi],
                        form.pages[pi].questions[qi].options[oi])
               /\ form' = Edited([form EXCEPT
                                     !.pages[pi].questions[qi].options =
                                         Checked(form.pages[pi].type, @, oi, checked)])
    /\ UNCHANGED <<screenVars, storeVars>>

\* Add option / Add correct answer: the option appended for the gap
OptionToAdd(type, gap) ==
    IF type = "input" THEN BlankOption(TRUE, gap)
    ELSE BlankOption(FALSE, IF type = "select_gaps" THEN gap ELSE 0)

AddOption ==
    /\ Editing
    /\ \E pi \in 1..Len(form.pages) :
         \E qi \in 1..Len(form.pages[pi].questions) :
           \E gap \in GapsOf(form.pages[pi].questions[qi]) :
               /\ form.pages[pi].type \in {"single", "multiple"} => gap = 0
               /\ form' = Edited([form EXCEPT
                                     !.pages[pi].questions[qi].options =
                                         Append(@, OptionToAdd(form.pages[pi].type, gap))])
    /\ UNCHANGED <<screenVars, storeVars>>

\* disabled of the ConfirmDeletePopover of an option: on a choice page the
\* question has one option; on an input or select_gaps page one option is
\* listed for the gap
DeleteDisabled(type, options, oi) ==
    IF type \in {"single", "multiple"} THEN Len(options) <= 1
    ELSE Cardinality({i \in 1..Len(options) :
                          GapOrZero(options[i]) = GapOrZero(options[oi])}) <= 1

\* The options of the form after the option is confirmed deleted: on choice
\* and input pages the last option stays listed
AfterDelete(type, options, oi) ==
    IF type # "select_gaps" /\ Len(options) <= 1 THEN options
    ELSE Without(options, oi)

\* onConfirm of the popover of an option: an option that has an id is
\* deleted at once with deleteOption, then the option leaves the form
ConfirmDeleteOption ==
    /\ Editing
    /\ \E pi \in 1..Len(form.pages) :
         \E qi \in 1..Len(form.pages[pi].questions) :
           \E oi \in 1..Len(form.pages[pi].questions[qi].options),
              fails \in {"", "delete"} :
             LET type == form.pages[pi].type
                 options == form.pages[pi].questions[qi].options
             IN  /\ Shown(form.pages[pi], form.pages[pi].questions[qi], options[oi])
                 /\ ~DeleteDisabled(type, options, oi)
                 /\ IF options[oi].id # NoId
                    THEN \E outcome \in {deleteOption(db, options[oi].id, TRUE, fails)} :
                           /\ db' = outcome.db
                           /\ calls' = <<Result("deleteOption", {}, outcome.ok,
                                                outcome.error)>>
                           /\ form' = Edited(IF outcome.ok
                                             THEN [form EXCEPT
                                                      !.pages[pi].questions[qi].options =
                                                          AfterDelete(type, @, oi)]
                                             ELSE form)
                    ELSE /\ fails = ""
                         /\ UNCHANGED <<db, calls>>
                         /\ form' = Edited([form EXCEPT
                                               !.pages[pi].questions[qi].options =
                                                   AfterDelete(type, @, oi)])
    /\ UNCHANGED <<screenVars, runs>>

\* onConfirm of the popover of a question (disabled when the page has one
\* question): deleteQuestion for a question that has an id, then
\* questionsArray.remove
ConfirmDeleteQuestion ==
    /\ Editing
    /\ \E pi \in 1..Len(form.pages) :
         \E qi \in 1..Len(form.pages[pi].questions), fails \in {"", "delete"} :
             LET q == form.pages[pi].questions[qi]
             IN  /\ Len(form.pages[pi].questions) > 1
                 /\ IF q.id # NoId
                    THEN \E outcome \in {deleteQuestion(db, q.id, TRUE, fails)} :
                           /\ db' = outcome.db
                           /\ calls' = <<Result("deleteQuestion", {}, outcome.ok,
                                                outcome.error)>>
                           /\ form' = Edited(IF outcome.ok
                                             THEN [form EXCEPT !.pages[pi].questions =
                                                                   Without(@, qi)]
                                             ELSE form)
                    ELSE /\ fails = ""
                         /\ UNCHANGED <<db, calls>>
                         /\ form' = Edited([form EXCEPT !.pages[pi].questions =
                                                            Without(@, qi)])
    /\ UNCHANGED <<screenVars, runs>>

\* handleDeletePage (canRemove: the form has more than one page)
HandleDeletePage ==
    /\ Editing
    /\ Len(form.pages) > 1
    /\ \E pi \in 1..Len(form.pages), fails \in {"", "delete"} :
         IF form.pages[pi].id # NoId
         THEN \E outcome \in {deleteQuizPage(db, form.pages[pi].id, TRUE, fails)} :
                /\ db' = outcome.db
                /\ calls' = <<Result("deleteQuizPage", {}, outcome.ok, outcome.error)>>
                /\ form' = Edited(IF outcome.ok
                                  THEN [form EXCEPT !.pages = Without(@, pi)]
                                  ELSE form)
         ELSE /\ fails = ""
              /\ UNCHANGED <<db, calls>>
              /\ form' = Edited([form EXCEPT !.pages = Without(@, pi)])
    /\ UNCHANGED <<screenVars, runs>>

\* Add question: questionsArray.append(defaultQuestion(undefined, length))
AddQuestion ==
    /\ Editing
    /\ \E pi \in 1..Len(form.pages) :
           form' = Edited([form EXCEPT !.pages[pi].questions =
                                           Append(@, AddedQuestion(Len(@)))])
    /\ UNCHANGED <<screenVars, storeVars>>

\* Add page: pagesArray.append(defaultPage(undefined, length))
AddPage ==
    /\ Editing
    /\ form' = Edited([form EXCEPT !.pages = Append(@, DefaultPage(Len(@)))])
    /\ UNCHANGED <<screenVars, storeVars>>

\* onChange of the page type select: the questions get one blank correct
\* option on an input or select_gaps page, keep their options on a choice
\* page (a question without options gets defaultOption())
Retyped(questions, value) ==
    [i \in 1..Len(questions) |->
        [questions[i] EXCEPT
            !.order_index = i - 1,
            !.options = IF value \in {"input", "select_gaps"}
                        THEN <<BlankOption(TRUE, 0)>>
                        ELSE IF Len(@) > 0 THEN @
                        ELSE <<BlankOption(FALSE, 0)>>]]

SetPageType ==
    /\ Editing
    /\ \E pi \in 1..Len(form.pages), value \in TestType :
           form' = Edited([form EXCEPT !.pages[pi].type = value,
                                       !.pages[pi].questions = Retyped(@, value)])
    /\ UNCHANGED <<screenVars, storeVars>>

\* addTheoryBlock(type): a text block
AddTheoryBlock ==
    /\ Editing
    /\ form' = Edited([form EXCEPT
                          !.theoryBlocks =
                              Append(@, [DBlock(NoId, "text", <<>>) EXCEPT
                                            !.order_index = Len(form.theoryBlocks)])])
    /\ UNCHANGED <<screenVars, storeVars>>

\* handleDeleteTheoryBlock(index): deleteTheoryBlock for a block that has an
\* id, then removeTheoryBlock, which re-indexes
HandleDeleteTheoryBlock ==
    /\ Editing
    /\ \E index \in 1..Len(form.theoryBlocks), fails \in {"", "remove", "delete"} :
         IF form.theoryBlocks[index].id # NoId
         THEN \E outcome \in {deleteTheoryBlock(db, form.theoryBlocks[index].id, TRUE, fails)} :
                /\ db' = outcome.db
                /\ calls' = <<Result("deleteTheoryBlock", {}, outcome.ok, outcome.error)>>
                /\ form' = Edited(IF outcome.ok
                                  THEN [form EXCEPT !.theoryBlocks =
                                                        Reindex(Without(@, index))]
                                  ELSE form)
         ELSE /\ fails = ""
              /\ UNCHANGED <<db, calls>>
              /\ form' = Edited([form EXCEPT !.theoryBlocks = Reindex(Without(@, index))])
    /\ UNCHANGED <<screenVars, runs>>

\* moveTheoryBlock(index, dir): the block changes places with its neighbour
MoveTheoryBlock ==
    /\ Editing
    /\ \E index \in 1..Len(form.theoryBlocks), dir \in {-1, 1} :
         /\ index + dir \in 1..Len(form.theoryBlocks)
         /\ form' = Edited([form EXCEPT
                               !.theoryBlocks =
                                   Reindex([@ EXCEPT ![index] = form.theoryBlocks[index + dir],
                                                     ![index + dir] = form.theoryBlocks[index]])])
    /\ UNCHANGED <<screenVars, storeVars>>

NextEditor ==
    \/ Save
    \/ SetQuestionTitle
    \/ SetOptionText
    \/ SetCorrect
    \/ AddOption
    \/ ConfirmDeleteOption
    \/ ConfirmDeleteQuestion
    \/ HandleDeletePage
    \/ AddQuestion
    \/ AddPage
    \/ SetPageType
    \/ AddTheoryBlock
    \/ HandleDeleteTheoryBlock
    \/ MoveTheoryBlock

\* The quizzes the editor is opened on: one page, select_gaps or multiple, of
\* two questions with a correct and an incorrect option each, with or
\* without theory blocks
EditorStores ==
    {SeedStore(tree) : tree \in {t \in SeedTrees :
                                    /\ Len(t.pages) = 1
                                    /\ t.pages[1].type \in {"select_gaps", "multiple"}}}

InitEditor ==
    /\ db \in EditorStores
    /\ form = LoadedForm(TreeOf(db, EditedQuiz))
    /\ calls = <<>>
    /\ runs = NoRuns
    /\ quiz = EmptyQuiz
    /\ selected = [q \in QuestionIds |-> <<>>]
    /\ textAnswers = [q \in QuestionIds |-> <<>>]
    /\ checkedPages = {}
    /\ pageIndex = 0
    /\ picked = [q \in QuestionIds |-> [g \in Gaps |-> 0]]

\* An administrator in the editor of a quiz
SpecEditor == InitEditor /\ [][NextEditor]_vars

\* Longest question template typed
MaxTemplate == 8

\* The templates typed: every text of brackets up to the length
RECURSIVE TextsUpTo(_, _)
TextsUpTo(letters, n) ==
    IF n = 0 THEN {<<>>}
    ELSE LET shorter == TextsUpTo(letters, n - 1)
         IN  shorter \cup {Append(t, c) : t \in {x \in shorter : Len(x) = n - 1},
                                          c \in letters}

Templates == TextsUpTo({"[", "]"}, MaxTemplate)

\* What the form lists for a gap: nothing, a blank option, an option that is
\* not marked correct, a correct option
Listings == {"none", "blank", "wrong", "right"}

Listed(gap, listing) ==
    IF listing = "none" THEN <<>>
    ELSE <<DOption(NoId, IF listing = "blank" THEN <<" ">> ELSE <<"a">>,
                   listing = "right", gap)>>

\* A form of one page of one question with the template and, for each of
\* the gaps 0, 1, 2, the listing
TemplateForm(type, template, listing) ==
    [pages |-> <<DPage(NoId, type, <<>>,
                       <<DQuestion(NoId, template, <<>>,
                                   Listed(0, listing[0]) \o Listed(1, listing[1])
                                       \o Listed(2, listing[2]))>>)>>,
     theoryBlocks |-> <<>>,
     edits |-> 0]

\* The editor open on a quiz without pages, a template typed and options
\* listed
InitTemplate ==
    /\ db = SeedStore([quizId |-> EditedQuiz, pages |-> <<>>, theoryBlocks |-> <<>>])
    /\ \E type \in {"input", "select_gaps"}, template \in Templates,
          listing \in [0..2 -> Listings] :
           form = TemplateForm(type, template, listing)
    /\ calls = <<>>
    /\ runs = NoRuns
    /\ quiz = EmptyQuiz
    /\ selected = [q \in QuestionIds |-> <<>>]
    /\ textAnswers = [q \in QuestionIds |-> <<>>]
    /\ checkedPages = {}
    /\ pageIndex = 0
    /\ picked = [q \in QuestionIds |-> [g \in Gaps |-> 0]]

\* The administrator saves the typed question
SpecTemplate == InitTemplate /\ [][Save]_vars

-----------------------------------------------------------------------------
(* Scoring claims *)

CurrentQuestions == Range(currentPage.questions)

\* Ids of the options of q flagged correct
CorrectIdSet(q) == {o.id : o \in {x \in Range(q.options) : x.is_correct}}

IsBlank(s) == \A i \in 1..Len(s) : s[i] = " "

\* s without its leading and trailing blanks, by positions
Stripped(s) ==
    IF IsBlank(s) THEN <<>>
    ELSE LET solid == {i \in 1..Len(s) : s[i] # " "}
             first == CHOOSE i \in solid : \A j \in solid : i <= j
             last  == CHOOSE i \in solid : \A j \in solid : i >= j
         IN  SubSeq(s, first, last)

SameLetter(c, d) == c = d \/ {c, d} = {"a", "A"}

\* Equal after trimming surrounding blanks and folding case
MatchesNormalized(s, t) ==
    LET u == Stripped(s)
        v == Stripped(t)
    IN  Len(u) = Len(v) /\ \A i \in 1..Len(u) : SameLetter(u[i], v[i])

\* C1: on a single page a question is counted correct iff exactly one option
\* id is selected and it is the id of the unique option flagged correct (so
\* never when zero or several options are flagged).
C1_SingleUniqueCorrect ==
    pageType = "single" =>
        \A q \in CurrentQuestions :
            QuestionCorrect(q, pageType) <=>
                /\ Len(selected[q.id]) = 1
                /\ CorrectIdSet(q) = {selected[q.id][1]}

\* C2: on a multiple page a question is counted correct iff the set of
\* selected option ids equals the set of ids of the options flagged correct,
\* whatever the order of selection.
C2_MultipleSetEquality ==
    pageType = "multiple" =>
        \A q \in CurrentQuestions :
            QuestionCorrect(q, pageType) <=> Range(selected[q.id]) = CorrectIdSet(q)

\* Two options selected against the order of their ids, and counted correct
C2_Witness ==
    /\ pageType = "multiple"
    /\ \E q \in CurrentQuestions :
           /\ Len(selected[q.id]) = 2
           /\ selected[q.id][1] > selected[q.id][2]
           /\ QuestionCorrect(q, pageType)

\* C3: on an input page a question with a single gap is counted correct iff
\* the submission is not blank and equals, after trimming and case-folding,
\* the text of at least one option; a blank submission is never correct.
C3_InputSingleGap ==
    pageType = "input" =>
        \A q \in CurrentQuestions :
            gapCount(q.question_title) = 1 /\ SplitCount(q.question_title) <= 1 =>
                (QuestionCorrect(q, pageType) <=>
                    /\ ~IsBlank(textAnswers[q.id])
                    /\ \E o \in Range(q.options) :
                           MatchesNormalized(o.option_text, textAnswers[q.id]))

\* A submission that equals no option text literally is counted correct, on a
\* question that also has a blank option
C3_Witness ==
    /\ pageType = "input"
    /\ \E q \in CurrentQuestions :
           /\ SplitCount(q.question_title) <= 1
           /\ QuestionCorrect(q, pageType)
           /\ \A o \in Range(q.options) : o.option_text # textAnswers[q.id]
           /\ Len(trim(textAnswers[q.id])) < Len(textAnswers[q.id])
           /\ \E o \in Range(q.options) : IsBlank(o.option_text)

\* C4: a question without options is counted incorrect on a page of any
\* type, whatever was submitted (nothing included).
C4_ZeroOptionsIncorrect ==
    \A q \in CurrentQuestions : q.options = <<>> => ~QuestionCorrect(q, pageType)

\* C5: an input question with several gaps is counted correct only if every
\* gap of its template is matched by an option of that gap's index.
C5_PerGapScoring ==
    pageType = "input" =>
        \A q \in CurrentQuestions :
            SplitCount(q.question_title) > 1 /\ QuestionCorrect(q, pageType) =>
                \A g \in 0..(gapCount(q.question_title) - 1) :
                    \E o \in Range(q.options) :
                        /\ GapOf(o) = g
                        /\ MatchesNormalized(o.option_text, textAnswers[q.id])

GapsPresent(q) == {GapOf(o) : o \in Range(q.options)}

\* C6: on a select_gaps page a question is counted correct iff for every gap
\* index present among its options the option picked for that gap is an
\* option of the question with that gap index flagged correct.
C6_SelectGapsScoring ==
    pageType = "select_gaps" =>
        \A q \in CurrentQuestions :
            QuestionCorrect(q, pageType) <=>
                /\ GapsPresent(q) # {}
                /\ \A g \in GapsPresent(q) :
                       \E o \in Range(q.options) :
                           /\ o.id = picked[q.id][g]
                           /\ GapOf(o) = g
                           /\ o.is_correct

\* total is the number of questions of the page, correct the number of them
\* counted correct
C7_ScorePair ==
    /\ getScore.total = Len(currentPage.questions)
    /\ getScore.correct =
           Cardinality({i \in 1..Len(currentPage.questions) :
                            QuestionCorrect(currentPage.questions[i], pageType)})
    /\ 0 <= getScore.correct
    /\ getScore.correct <= getScore.total

\* C7: the score is the pair (correct, total) with 0 <= correct <= total, and
\* Check results marks the current page alone and keeps the page index.
C7_ScoreAndCheck ==
    /\ []C7_ScorePair
    /\ [][HandleCheck =>
              /\ pageIndex' = pageIndex
              /\ checkedPages' = checkedPages \cup {currentPage.id}]_vars

\* The first of two pages checked with one of its two questions correct, the
\* screen still on it and the second page unchecked
C7_Witness ==
    /\ Len(pages) = 2
    /\ pageIndex = 0
    /\ checkedPages = {currentPage.id}
    /\ getScore = [correct |-> 1, total |-> 2]

-----------------------------------------------------------------------------
(* Reconciler claims *)

\* The last invocation has returned ok
Returned == calls # <<>> /\ calls[Len(calls)].ok

LastCall == calls[Len(calls)]

GapBased(type) == type \in {"input", "select_gaps"}

\* The ids the items of a list carry
CarriedIds(items) == {items[k].id : k \in 1..Len(items)} \ {NoId}

\* No id is carried by two items of the list
NoIdTwice(items) ==
    \A k, l \in 1..Len(items) : k # l /\ items[k].id # NoId => items[k].id # items[l].id

\* The items of the tree that carry an id carry pairwise distinct ids
DistinctIds(tree) ==
    LET questions == [i \in 1..Len(tree.pages) |-> tree.pages[i].questions]
        AllQuestions[i \in 0..Len(questions)] ==
            IF i = 0 THEN <<>> ELSE AllQuestions[i - 1] \o questions[i]
        every == AllQuestions[Len(questions)]
        AllOptions[i \in 0..Len(every)] ==
            IF i = 0 THEN <<>> ELSE AllOptions[i - 1] \o every[i].options
    IN  /\ NoIdTwice(tree.pages)
        /\ NoIdTwice(every)
        /\ NoIdTwice(AllOptions[Len(every)])
        /\ NoIdTwice(tree.theoryBlocks)

\* A text column holds the desired text, null standing for the empty text
HoldsText(column, text) == column = text \/ (column = Null /\ text = <<>>)

\* The page rows of the quiz are the desired pages, the question rows of each
\* page the desired questions
PagesAndQuestionsPersisted(c) ==
    LET desired == c.data.pages
        saved == c.saved.pages
        pageRows == {pg \in db.quiz_pages : pg.quiz_id = c.data.quizId}
    IN  /\ Cardinality(pageRows) = Len(desired)
        /\ \A i \in 1..Len(desired) :
             /\ \E pg \in pageRows :
                    /\ pg.id = saved[i].id
                    /\ pg.type = desired[i].type
                    /\ HoldsText(pg.title, desired[i].title)
                    /\ pg.order_index = desired[i].order_index
             /\ LET rows == {q \in db.questions : q.page_id = saved[i].id}
                IN  /\ Cardinality(rows) = Len(desired[i].questions)
                    /\ \A j \in 1..Len(desired[i].questions) :
                           \E q \in rows :
                               /\ q.id = saved[i].questions[j].id
                               /\ q.question_title = desired[i].questions[j].question_title
                               /\ HoldsText(q.explanation,
                                            desired[i].questions[j].explanation)
                               /\ q.order_index = desired[i].questions[j].order_index

\* The gap index a desired option stands for: absent means gap 0
DesiredGap(o) == IF o.gap_index = NoGap THEN 0 ELSE o.gap_index

\* The option rows of every desired question are its desired options, as
\* they are
OptionsPersistedAsDesired(c) ==
    \A i \in 1..Len(c.data.pages) : \A j \in 1..Len(c.data.pages[i].questions) :
        LET type == c.data.pages[i].type
            desired == c.data.pages[i].questions[j].options
            saved == c.saved.pages[i].questions[j].options
            rows == {o \in db.options : o.question_id = c.saved.pages[i].questions[j].id}
        IN  /\ Cardinality(rows) = Len(desired)
            /\ \A k \in 1..Len(desired) :
                   \E o \in rows :
                       /\ o.id = saved[k].id
                       /\ o.option_text = desired[k].option_text
                       /\ o.is_correct = desired[k].is_correct
                       /\ GapBased(type) => o.gap_index = DesiredGap(desired[k])

\* The desired option is written: on an input or select_gaps page an option
\* of blank text is not
Written(type, o) == ~GapBased(type) \/ ~IsBlank(o.option_text)

\* The option rows of every desired question are its desired options as its
\* page type has them written
OptionsPersistedByType(c) ==
    \A i \in 1..Len(c.data.pages) : \A j \in 1..Len(c.data.pages[i].questions) :
        LET type == c.data.pages[i].type
            desired == c.data.pages[i].questions[j].options
            saved == c.saved.pages[i].questions[j].options
            rows == {o \in db.options : o.question_id = c.saved.pages[i].questions[j].id}
            written == {k \in 1..Len(desired) : Written(type, desired[k])}
        IN  /\ Cardinality(rows) = Cardinality(written)
            /\ \A k \in written :
                   \E o \in rows :
                       /\ o.id = saved[k].id
                       /\ o.option_text = IF GapBased(type)
                                          THEN Stripped(desired[k].option_text)
                                          ELSE desired[k].option_text
                       /\ o.is_correct = (type = "input" \/ desired[k].is_correct)
                       /\ o.gap_index =
                              IF GapBased(type) THEN DesiredGap(desired[k])
                              ELSE IF \E old \in c.before.options : old.id = o.id
                              THEN (CHOOSE old \in c.before.options : old.id = o.id).gap_index
                              ELSE NoGap

\* The theory-block rows of the quiz are the desired blocks, each content
\* as Content gives it
BlocksPersisted(c, Content(_)) ==
    LET desired == c.data.theoryBlocks
        rows == {b \in db.theory_blocks : b.quiz_id = c.data.quizId}
    IN  /\ Cardinality(rows) = Len(desired)
        /\ \A k \in 1..Len(desired) :
               \E b \in rows :
                   /\ b.id = c.saved.theoryBlocks[k].id
                   /\ b.type = desired[k].type
                   /\ b.content = Content(desired[k].content)
                   /\ b.order_index = desired[k].order_index

AsDesired(content) == content

TrimmedOrBlank(content) == IF IsBlank(content) THEN <<" ">> ELSE Stripped(content)

\* Every desired item of the kinds Kept admits that carried an id existing
\* under the same parent before the call has a row of that id under that
\* parent
IdsPreserved(c, Kept(_, _)) ==
    /\ \A pg \in Range(c.data.pages) :
           (\E old \in c.before.quiz_pages : old.id = pg.id /\ old.quiz_id = c.data.quizId)
           => /\ \E row \in db.quiz_pages : row.id = pg.id /\ row.quiz_id = c.data.quizId
              /\ \A q \in Range(pg.questions) :
                     (\E old \in c.before.questions : old.id = q.id /\ old.page_id = pg.id)
                     => /\ \E row \in db.questions : row.id = q.id /\ row.page_id = pg.id
                        /\ \A o \in Range(q.options) :
                               (/\ Kept(pg.type, o)
                                /\ \E old \in c.before.options :
                                       old.id = o.id /\ old.question_id = q.id)
                               => \E row \in db.options :
                                      row.id = o.id /\ row.question_id = q.id
    /\ \A b \in Range(c.data.theoryBlocks) :
           (\E old \in c.before.theory_blocks :
                old.id = b.id /\ old.quiz_id = c.data.quizId)
           => \E row \in db.theory_blocks : row.id = b.id /\ row.quiz_id = c.data.quizId

AnyOption(type, o) == TRUE

QuestionsBelow(c, pg) == Ids({q \in c.before.questions : q.page_id = pg.id})

OptionsBelow(c, questionIds) ==
    Ids({o \in c.before.options : o.question_id \in questionIds})

\* Omitted items are gone with everything below them, and the retained items
\* of the kinds Kept admits are still there under their id
OmittedGone(c, Kept(_, _)) ==
    \A old \in {pg \in c.before.quiz_pages : pg.quiz_id = c.data.quizId} :
        IF old.id \notin CarriedIds(c.data.pages)
        THEN /\ old.id \notin Ids(db.quiz_pages)
             /\ QuestionsBelow(c, old) \cap Ids(db.questions) = {}
             /\ OptionsBelow(c, QuestionsBelow(c, old)) \cap Ids(db.options) = {}
             /\ \A o \in db.options : o.question_id \notin QuestionsBelow(c, old)
             /\ \A q \in db.questions : q.page_id # old.id
        ELSE LET pg == CHOOSE x \in Range(c.data.pages) : x.id = old.id
             IN  /\ old.id \in Ids(db.quiz_pages)
                 /\ \A oldQ \in {q \in c.before.questions : q.page_id = old.id} :
                      IF oldQ.id \notin CarriedIds(pg.questions)
                      THEN /\ oldQ.id \notin Ids(db.questions)
                           /\ OptionsBelow(c, {oldQ.id}) \cap Ids(db.options) = {}
                           /\ \A o \in db.options : o.question_id # oldQ.id
                      ELSE LET q == CHOOSE x \in Range(pg.questions) : x.id = oldQ.id
                           IN  /\ \E row \in db.questions :
                                      row.id = oldQ.id /\ row.page_id = old.id
                               /\ \A oldO \in {o \in c.before.options :
                                                 o.question_id = oldQ.id} :
                                    IF oldO.id \notin CarriedIds(q.options)
                                    THEN oldO.id \notin Ids(db.options)
                                    ELSE LET o == CHOOSE x \in Range(q.options) :
                                                      x.id = oldO.id
                                         IN  IF Kept(pg.type, o)
                                             THEN \E row \in db.options :
                                                      /\ row.id = oldO.id
                                                      /\ row.question_id = oldQ.id
                                             ELSE oldO.id \notin Ids(db.options)

-----------------------------------------------------------------------------
(* createQuiz claims *)

\* The rows of a table the last invocation added
Added(table) == db[table] \ LastCall.before[table]

\* The positions <<i, j>> of the desired questions, <<i, j, k>> of the
\* desired options
QuestionsAt(data) ==
    UNION {{<<i, j>> : j \in 1..Len(data.pages[i].questions)} : i \in 1..Len(data.pages)}

OptionsAt(data, i, j) ==
    {k \in 1..Len(data.pages[i].questions[j].options) :
         Written(data.pages[i].type, data.pages[i].questions[j].options[k])}

\* C11: when createQuiz returns ok it has inserted exactly one quiz row, one
\* page row per desired page, one question row per desired question, one
\* option row per desired option of a single or multiple question and per
\* desired option of non-blank text of an input or select_gaps question, and
\* one theory-block row per desired block, each under the parent made for
\* it; no other row is added or removed.
C11_CreateInsertsTree ==
    Returned /\ LastCall.action = "createQuiz"
    => LET data == LastCall.data
           saved == LastCall.saved
       IN  /\ Added("quizzes") = {row \in db.quizzes : row.id = saved.quizId}
           /\ Cardinality(Added("quizzes")) = 1
           /\ Cardinality(Added("quiz_pages")) = Len(data.pages)
           /\ \A i \in 1..Len(data.pages) :
                  \E row \in Added("quiz_pages") :
                      row.id = saved.pages[i].id /\ row.quiz_id = saved.quizId
           /\ Cardinality(Added("questions")) = Cardinality(QuestionsAt(data))
           /\ \A at \in QuestionsAt(data) :
                  /\ \E row \in Added("questions") :
                         /\ row.id = saved.pages[at[1]].questions[at[2]].id
                         /\ row.page_id = saved.pages[at[1]].id
                  /\ Cardinality({o \in Added("options") :
                                    o.question_id = saved.pages[at[1]].questions[at[2]].id})
                     = Cardinality(OptionsAt(data, at[1], at[2]))
           /\ \A o \in Added("options") :
                  \E at \in QuestionsAt(data) :
                      o.question_id = saved.pages[at[1]].questions[at[2]].id
           /\ Cardinality(Added("theory_blocks")) = Len(data.theoryBlocks)
           /\ \A row \in Added("theory_blocks") : row.quiz_id = saved.quizId
           /\ \A table \in {"quizzes", "quiz_pages", "questions", "options",
                            "theory_blocks"} : LastCall.before[table] \subseteq db[table]

\* A quiz of two pages made, the first an input page with an option of blank
\* text, with theory blocks
C11_Witness ==
    /\ Returned
    /\ LastCall.action = "createQuiz"
    /\ Len(LastCall.data.pages) = 2
    /\ LastCall.data.pages[1].type = "input"
    /\ \E o \in Range(LastCall.data.pages[1].questions[1].options) :
           IsBlank(o.option_text)
    /\ LastCall.data.theoryBlocks # <<>>
    /\ Added("options") # {}

\* C12: a question of a single or multiple page with zero options is
\* rejected with ChoiceError before any write for that question: when the
\* action returns that error, no row of the rejected question is persisted.
C12_RejectedBeforeWrite ==
    calls # <<>> /\ LastCall.action = "createQuiz" /\ LastCall.error = ChoiceError
    => /\ LastCall.rejected \notin Ids(db.questions)
       /\ \A o \in db.options : o.question_id # LastCall.rejected

\* C13: a mutating action called by someone who is not an administrator
\* returns the Unauthorized error and leaves the store as it was.
C13_UnauthorizedNoWrite ==
    calls # <<>> /\ ~LastCall.admin
    => /\ ~LastCall.ok
       /\ LastCall.error = "Unauthorized"
       /\ db = LastCall.before

\* slug followed by k times "-2"
WithSuffixes(slug, k) ==
    slug \o [i \in 1..(2 * k) |-> IF i % 2 = 1 THEN "-" ELSE "2"]

Slugs(d) == {quizRow.slug : quizRow \in d.quizzes}

\* The quiz insert of the last call was attempted without a failure other
\* than unique violations
QuizInsertDone == LastCall.fault = 0 \/ LastCall.fault > LastCall.attempts

\* C14: createQuiz by an administrator appends "-2" to the trimmed slug once
\* for every attempt that met a slug in use, and inserts the quiz row under
\* the first slug of that series that is unused, leaving the quiz rows there
\* were as they were; a quiz insert that fails otherwise ends the call at
\* once with that failure and no row.
C14_SlugSuffixedUntilUnused ==
    calls # <<>> /\ LastCall.admin
    => LET before == LastCall.before
           slug == trim(LastCall.data.slug)
           k == LastCall.attempts - 1
       IN  IF QuizInsertDone
           THEN /\ \A j \in 0..(k - 1) : WithSuffixes(slug, j) \in Slugs(before)
                /\ WithSuffixes(slug, k) \notin Slugs(before)
                /\ Added("quizzes") = {QuizRow(LastCall.saved.quizId, WithSuffixes(slug, k))}
                /\ before.quizzes \subseteq db.quizzes
                /\ LastCall.n >= LastCall.attempts
           ELSE /\ ~LastCall.ok
                /\ LastCall.error = StoreError
                /\ LastCall.n = LastCall.fault
                /\ LastCall.fault = LastCall.attempts
                /\ db = before

\* createQuiz met two slugs in use and succeeded on its third attempt
C14_Witness ==
    /\ calls # <<>>
    /\ LastCall.admin
    /\ LastCall.ok
    /\ LastCall.attempts = 3
    /\ Cardinality(db.quizzes) = 3

\* A quiz insert of createQuiz failed after a unique violation
C14_WitnessFailure ==
    /\ calls # <<>>
    /\ LastCall.admin
    /\ LastCall.fault = 2
    /\ LastCall.attempts = 2
    /\ LastCall.error = StoreError

-----------------------------------------------------------------------------
(* updateQuiz claims, store calls failing *)

\* An invocation that ran alone and met no failure leaves the store and
\* returns what updateQuiz as a whole does
StepsAgree ==
    \A s \in 1..Len(runs) :
        Finished(runs[s]) /\ runs[s].failed = 0 /\ Len(runs) = 1
        => LET whole == updateQuiz(runs[s].before, runs[s].data).r
           IN  /\ whole.db = db
               /\ whole.ok = runs[s].ok
               /\ whole.error = runs[s].error

\* C15: when a store call of an updateQuiz invocation fails, the invocation
\* returns ok = false with the message of that failure, having issued no
\* store call after it.
C15_FirstFailureReturned ==
    \A s \in 1..Len(runs) :
        Finished(runs[s]) /\ runs[s].failed # 0
        => /\ ~runs[s].ok
           /\ runs[s].error = StoreError
           /\ runs[s].n = runs[s].failed
           /\ runs[s].writesAfter = 0

\* The same, of the store calls that write
WriteFailureReturned ==
    \A s \in 1..Len(runs) :
        /\ Finished(runs[s])
        /\ runs[s].failed # 0
        /\ runs[s].failedCall \notin {"selectPages", "selectQuestions",
                                      "selectOptions", "selectBlocks"}
        => /\ ~runs[s].ok
           /\ runs[s].error = StoreError
           /\ runs[s].n = runs[s].failed
           /\ runs[s].writesAfter = 0

\* C16: when updateQuiz drops theory blocks and the removal of their image
\* assets fails, the deletion of their rows is attempted all the same: the
\* rows are gone when the invocation returns.
C16_RowsDeletedDespiteAssetFailure ==
    \A s \in 1..Len(runs) :
        Finished(runs[s]) /\ runs[s].failedCall = "removeAssets"
        => Ids(BlocksToDelete(runs[s])) \cap Ids(db.theory_blocks) = {}

\* The pages, questions, options and theory blocks persisted for the quiz,
\* without their ids; the gap_index of an option of a choice page left aside
PersistedShape(d, quizId) ==
    LET OptionsOf(type, q) ==
            {[option_text |-> o.option_text, is_correct |-> o.is_correct,
              gap_index |-> IF GapBased(type) THEN o.gap_index ELSE NoGap]
               : o \in {x \in d.options : x.question_id = q.id}}
        QuestionsOf(pg) ==
            {[question_title |-> q.question_title, explanation |-> q.explanation,
              order_index |-> q.order_index, options |-> OptionsOf(pg.type, q)]
               : q \in {x \in d.questions : x.page_id = pg.id}}
    IN  [pages |-> {[type |-> pg.type, title |-> pg.title,
                     order_index |-> pg.order_index, questions |-> QuestionsOf(pg)]
                      : pg \in {x \in d.quiz_pages : x.quiz_id = quizId}},
         blocks |-> {[type |-> b.type, content |-> b.content,
                      order_index |-> b.order_index]
                       : b \in {x \in d.theory_blocks : x.quiz_id = quizId}}]

\* The same of a desired tree, its options as the page type has them written
DesiredShape(data) ==
    LET NullIfEmpty(text) == IF text = <<>> THEN Null ELSE text
        OptionsOf(type, q) ==
            {[option_text |-> IF GapBased(type) THEN Stripped(o.option_text)
                              ELSE o.option_text,
              is_correct |-> (type = "input" \/ o.is_correct),
              gap_index |-> IF GapBased(type) THEN DesiredGap(o) ELSE NoGap]
               : o \in {x \in Range(q.options) : Written(type, x)}}
        QuestionsOf(pg) ==
            {[question_title |-> q.question_title,
              explanation |-> NullIfEmpty(q.explanation),
              order_index |-> q.order_index, options |-> OptionsOf(pg.type, q)]
               : q \in Range(pg.questions)}
    IN  [pages |-> {[type |-> pg.type, title |-> NullIfEmpty(pg.title),
                     order_index |-> pg.order_index, questions |-> QuestionsOf(pg)]
                      : pg \in Range(data.pages)},
         blocks |-> {[type |-> b.type, content |-> TrimmedOrBlank(b.content),
                      order_index |-> b.order_index]
                       : b \in Range(data.theoryBlocks)}]

\* As many rows are persisted for the quiz as the desired tree has pages,
\* questions, written options and theory blocks
NoDuplicates(d, data) ==
    LET pageRows == {pg \in d.quiz_pages : pg.quiz_id = data.quizId}
        questionRows == {q \in d.questions : q.page_id \in Ids(pageRows)}
        optionRows == {o \in d.options : o.question_id \in Ids(questionRows)}
        blockRows == {b \in d.theory_blocks : b.quiz_id = data.quizId}
        desiredQuestions ==
            UNION {{<<i, j>> : j \in 1..Len(data.pages[i].questions)}
                     : i \in 1..Len(data.pages)}
        desiredOptions ==
            UNION {{<<ij, k>> : k \in {l \in 1..Len(data.pages[ij[1]].questions[ij[2]].options) :
                                          Written(data.pages[ij[1]].type,
                                                  data.pages[ij[1]].questions[ij[2]].options[l])}}
                     : ij \in desiredQuestions}
    IN  /\ Cardinality(pageRows) = Len(data.pages)
        /\ Cardinality(questionRows) = Cardinality(desiredQuestions)
        /\ Cardinality(optionRows) = Cardinality(desiredOptions)
        /\ Cardinality(blockRows) = Len(data.theoryBlocks)

\* The persisted tree of the quiz is the desired tree, nothing twice
Converged(d, data) ==
    /\ PersistedShape(d, data.quizId) = DesiredShape(data)
    /\ NoDuplicates(d, data)

\* The attempt failed after a store call that writes had succeeded: the
\* first call of an invocation is the update of the quiz row
AppliedWrites(attempt) == attempt.failed > 1

\* C20: when updateQuiz has failed part-way and the same desired tree is
\* submitted again, a retry that returns ok leaves the persisted tree of the
\* quiz equal to the desired tree, with no duplicate rows.
C20_RetryConverges ==
    \A s \in 1..Len(runs) :
        /\ Finished(runs[s]) /\ runs[s].attempt = 2 /\ runs[s].ok
        /\ AppliedWrites(runs[s].earlier)
        => Converged(db, runs[s].data)

\* The same of a retry none of whose store calls fails
RetryWithoutFailureConverges ==
    \A s \in 1..Len(runs) :
        /\ Finished(runs[s]) /\ runs[s].attempt = 2 /\ runs[s].ok /\ runs[s].failed = 0
        /\ AppliedWrites(runs[s].earlier)
        => Converged(db, runs[s].data)

\* A retry without a failure has returned ok after an attempt that failed
\* having inserted rows
RetryAfterInserts ==
    \E s \in 1..Len(runs) :
        /\ Finished(runs[s]) /\ runs[s].attempt = 2 /\ runs[s].ok /\ runs[s].failed = 0
        /\ runs[s].earlier.inserts > 0

-----------------------------------------------------------------------------
(* updateQuiz claims, two invocations *)

BothReturnedOk ==
    /\ Len(runs) = 2
    /\ \A s \in 1..2 : Finished(runs[s]) /\ runs[s].ok

\* The invocation that returned last
LastReturned == CHOOSE s \in 1..2 : runs[s].rank = 2

\* C19: when two updateQuiz invocations for the same quiz overlap and both
\* return ok, the persisted tree of the quiz is the desired tree of the
\* invocation that returned last, with nothing left over.
C19_LaterSaveWins ==
    BothReturnedOk /\ runs[2].overlaps
    => Converged(db, runs[LastReturned].data)

\* The same of two invocations of which the second began after the first
\* had returned
SecondSaveWins ==
    BothReturnedOk /\ ~runs[2].overlaps
    => Converged(db, runs[2].data)

-----------------------------------------------------------------------------
(* Read claims *)

\* The items of the list are in ascending order_index
Ascending(items) ==
    \A k, l \in 1..Len(items) : k < l => items[k].order_index <= items[l].order_index

\* The list holds one item for each of the rows and no other, item and row
\* agreeing on the columns named
OncePerRow(items, rows, columns) ==
    /\ Len(items) = Cardinality(rows)
    /\ \A row \in rows : \E k \in 1..Len(items) :
           \A column \in columns : items[k][column] = row[column]

\* C17: for a persisted quiz, getQuizWithPages returns every page of the quiz
\* once, in ascending order_index, under each page every question of that
\* page once, in ascending order_index, and under each question every option
\* of that question once; nothing else appears, so that a page without
\* questions and a question without options get an empty list.
C17_NestedOnceInOrder ==
    /\ calls # <<>>
    /\ LastCall.action = "getQuizWithPages"
    /\ LastCall.quizId \in Ids(db.quizzes)
    /\ LastCall.fault = 0
    => /\ LastCall.outcome = "value"
       /\ LET listed == LastCall.value.pages
          IN  /\ OncePerRow(listed, {pg \in db.quiz_pages : pg.quiz_id = LastCall.quizId},
                            {"id", "quiz_id", "type", "title", "order_index"})
              /\ Ascending(listed)
              /\ \A k \in 1..Len(listed) :
                   /\ OncePerRow(listed[k].questions,
                                 {q \in db.questions : q.page_id = listed[k].id},
                                 {"id", "page_id", "question_title", "explanation",
                                  "order_index"})
                   /\ Ascending(listed[k].questions)
                   /\ \A j \in 1..Len(listed[k].questions) :
                          OncePerRow(listed[k].questions[j].options,
                                     {o \in db.options :
                                        o.question_id = listed[k].questions[j].id},
                                     {"id", "question_id", "option_text", "is_correct"})

\* A quiz was read that has two pages, one of them without questions, a
\* question without options and a question with two
C17_Witness ==
    /\ calls # <<>>
    /\ LastCall.action = "getQuizWithPages"
    /\ LastCall.fault = 0
    /\ LastCall.outcome = "value"
    /\ Len(LastCall.value.pages) = 2
    /\ \E k \in 1..2 : LastCall.value.pages[k].questions = <<>>
    /\ \E k \in 1..2 : \E j, l \in 1..Len(LastCall.value.pages[k].questions) :
           /\ LastCall.value.pages[k].questions[j].options = <<>>
           /\ Len(LastCall.value.pages[k].questions[l].options) = 2

\* A quiz was read whose two pages have two questions each
C17_WitnessFull ==
    /\ calls # <<>>
    /\ LastCall.action = "getQuizWithPages"
    /\ LastCall.outcome = "value"
    /\ Len(LastCall.value.pages) = 2
    /\ \A k \in 1..2 : Len(LastCall.value.pages[k].questions) = 2

\* C18: a read returns null exactly when the id or the slug asked for
\* resolves to no quiz, and throws when one of the queries it issues fails.
C18_NullOnlyWhenUnresolved ==
    calls # <<>> /\ LastCall.action \in {"getQuizWithPages", "getQuizWithPagesBySlug"}
    => /\ LastCall.outcome = "null" <=> LastCall.quizId \notin Ids(db.quizzes)
       /\ LastCall.fault = 1 => LastCall.outcome = "thrown"

\* The same of the queries after the one that looks the quiz up: a read that
\* is past it returns null never, and throws when the query of the pages
\* fails
LaterFailuresThrown ==
    /\ calls # <<>>
    /\ LastCall.action \in {"getQuizWithPages", "getQuizWithPagesBySlug"}
    /\ LastCall.quizId \in Ids(db.quizzes)
    /\ LastCall.fault # 1
    /\ ~(LastCall.action = "getQuizWithPagesBySlug" /\ LastCall.fault = 2)
    => /\ LastCall.outcome # "null"
       /\ LastCall.fault = (IF LastCall.action = "getQuizWithPages" THEN 2 ELSE 3)
          => LastCall.outcome = "thrown"

-----------------------------------------------------------------------------
(* Quiz screen claims: answers and checked pages *)

\* The question of a page of the given type has a recorded answer
Answered(type, q) ==
    IF type \in {"single", "multiple"} THEN Len(selected[q.id]) >= 1
    ELSE IF type = "input" THEN ~IsBlank(textAnswers[q.id])
    ELSE \A gap \in 0..(gapCount(q.question_title) - 1) : picked[q.id][gap] # 0

\* C23: every checked page has questions, and each of them has a recorded
\* answer: a selected option on single and multiple pages, a non-blank text
\* on input pages, a selection for every gap on select_gaps pages.
C23_CheckedOnlyWhenAnswered ==
    \A k \in 1..Len(pages) :
        pages[k].id \in checkedPages
        => /\ Len(pages[k].questions) > 0
           /\ \A i \in 1..Len(pages[k].questions) :
                  Answered(pages[k].type, pages[k].questions[i])

\* The same of the pages that are not of type select_gaps
CheckedChoiceAndInputAnswered ==
    \A k \in 1..Len(pages) :
        pages[k].id \in checkedPages /\ pages[k].type # "select_gaps"
        => /\ Len(pages[k].questions) > 0
           /\ \A i \in 1..Len(pages[k].questions) :
                  Answered(pages[k].type, pages[k].questions[i])

\* The score the screen shows for page k once it is checked
ScoreOf(k) == CountCorrect(pages[k].questions, pages[k].type, 1)

\* C27: a checked page stays checked, and the selections and the text
\* answers of its questions, and with them the score the page shows, are
\* the same after every step.
C27_CheckedPageFrozen ==
    [][\A k \in 1..Len(pages) :
           pages[k].id \in checkedPages
           => /\ pages[k].id \in checkedPages'
              /\ \A i \in 1..Len(pages[k].questions) :
                     /\ selected'[pages[k].questions[i].id]
                            = selected[pages[k].questions[i].id]
                     /\ textAnswers'[pages[k].questions[i].id]
                            = textAnswers[pages[k].questions[i].id]
              /\ ScoreOf(k)' = ScoreOf(k)]_vars

\* Both pages are checked and the respondent is back on the first, whose
\* questions are answered
C27_Witness ==
    /\ checkedPages = {"p1", "p2"}
    /\ pageIndex = 0
    /\ isCurrentPageChecked
    /\ selected["q1"] # <<>>
    /\ selected["q2"] # <<>>

-----------------------------------------------------------------------------
(* Claims on the immediate actions and on ownership *)

\* rows of a table whose parent column names a row that is not there
Orphans(rows, column, parents) == {row \in rows : row[column] \notin Ids(parents)}

\* The immediate action of the behaviour, once it has returned ok
Deleted(action) ==
    /\ calls # <<>>
    /\ calls[1].action = action
    /\ calls[1].ok

\* C21: in every state reached by createQuiz, updateQuiz with store calls
\* failing part-way, deleteQuizPage, deleteQuestion, deleteOption and
\* deleteTheoryBlock, every option belongs to a persisted question, every
\* question to a persisted page, every page and theory block to a persisted
\* quiz; once a page or a question is deleted no row names it as its parent
C21_NoOrphans ==
    /\ Orphans(db.options, "question_id", db.questions) = {}
    /\ Orphans(db.questions, "page_id", db.quiz_pages) = {}
    /\ Orphans(db.quiz_pages, "quiz_id", db.quizzes) = {}
    /\ Orphans(db.theory_blocks, "quiz_id", db.quizzes) = {}
    /\ Deleted("deleteQuizPage")
       => \A q \in db.questions : q.page_id # calls[1].arg
    /\ Deleted("deleteQuestion")
       => \A o \in db.options : o.question_id # calls[1].arg

\* A page that had questions with options is deleted after an updateQuiz
\* that failed part-way
C21_Witness ==
    /\ Deleted("deleteQuizPage")
    /\ \E q \in calls[1].before.questions :
           /\ q.page_id = calls[1].arg
           /\ \E o \in calls[1].before.options : o.question_id = q.id
    /\ Len(runs) = 1
    /\ runs[1].failed > 0
    /\ runs[1].inserts > 0

ImmediateActions ==
    {"deleteTheoryBlock", "deleteQuizPage", "deleteQuestion", "deleteOption",
     "uploadTheoryImage"}

\* C29: deleteTheoryBlock, deleteQuizPage, deleteQuestion, deleteOption and
\* uploadTheoryImage called by a caller who is not an administrator return
\* { ok: false, error: "Unauthorized" }, issue no store call and leave the
\* tables and the image bucket as they are
C29_UnauthorizedNoChange ==
    [][(/\ calls = <<>>
        /\ calls' # <<>>
        /\ calls'[1].action \in ImmediateActions
        /\ ~calls'[1].admin)
       => /\ ~calls'[1].ok
          /\ calls'[1].error = Unauthorized
          /\ calls'[1].issued = <<>>
          /\ db' = db]_vars

\* A caller who is not an administrator has called deleteTheoryBlock for an
\* image block whose asset is in the bucket
C29_Witness ==
    /\ calls # <<>>
    /\ calls[1].action = "deleteTheoryBlock"
    /\ ~calls[1].admin
    /\ \E b \in RowsById(calls[1].before.theory_blocks, calls[1].arg) :
           /\ HasAsset(b)
           /\ getStoragePathFromPublicUrl(b.content) \in calls[1].before.storage

\* The place of a store call among those an action issued (0: not issued)
PlaceOf(call, issued) ==
    IF call \in Range(issued)
    THEN CHOOSE k \in 1..Len(issued) : issued[k] = call
    ELSE 0

\* C30: in deleteTheoryBlock and in the theory-block cleanup of updateQuiz
\* the removal of the assets is issued before the deletion of the rows; when
\* the removal fails the action returns the storage error and deletes no
\* theory-block row; a row whose asset resolves is never deleted with the
\* asset still in the bucket
C30_AssetRemovedBeforeRow ==
    [][/\ \A b \in {x \in db.theory_blocks : x.id \notin Ids(db'.theory_blocks)} :
              HasAsset(b)
              => getStoragePathFromPublicUrl(b.content) \notin db'.storage
       /\ \A s \in 1..Len(runs) :
              (/\ Len(runs') = Len(runs)
               /\ runs[s].pc = "removeAssets"
               /\ runs'[s].failedCall = "removeAssets")
              => /\ Finished(runs'[s])
                 /\ ~runs'[s].ok
                 /\ runs'[s].error = StoreError
                 /\ db'.theory_blocks = db.theory_blocks
       /\ (/\ calls = <<>>
           /\ calls' # <<>>
           /\ calls'[1].action = "deleteTheoryBlock"
           /\ "remove" \in Range(calls'[1].issued))
          => /\ PlaceOf("delete", calls'[1].issued) \in
                    {0} \cup ((PlaceOf("remove", calls'[1].issued) + 1)..3)
             /\ calls'[1].fails = "remove"
                => /\ ~calls'[1].ok
                   /\ calls'[1].error = StoreError
                   /\ "delete" \notin Range(calls'[1].issued)
                   /\ db'.theory_blocks = db.theory_blocks]_vars

\* deleteTheoryBlock of an image block has failed at the removal of the
\* asset, and an updateQuiz that drops the image block has failed there too:
\* the rows are still in the table
C30_Witness ==
    /\ calls # <<>>
    /\ calls[1].action = "deleteTheoryBlock"
    /\ calls[1].admin
    /\ calls[1].fails = "remove"
    /\ calls[1].error = StoreError
    /\ RowsById(db.theory_blocks, calls[1].arg) # {}
    /\ Len(runs) = 1
    /\ Finished(runs[1])
    /\ runs[1].failedCall = "removeAssets"
    /\ BlocksToDelete(runs[1]) # {}
    /\ Ids(BlocksToDelete(runs[1])) \subseteq Ids(db.theory_blocks)

-----------------------------------------------------------------------------
(* Claims on what the writers store of an option *)

\* The option rows the last call wrote under a question: those that were not
\* there before it, or not as they are
WrittenRows(c, questionId) ==
    {o \in db.options : o.question_id = questionId /\ o \notin c.before.options}

\* The row stands for the desired option of an input page
InputRowOf(o, wanted) ==
    /\ ~IsBlank(wanted.option_text)
    /\ o.option_text = Stripped(wanted.option_text)
    /\ o.gap_index = DesiredGap(wanted)
    /\ o.is_correct

\* The gap_index the row had before the call, none for a row that was not
\* there
GapBefore(c, o) ==
    IF \E old \in c.before.options : old.id = o.id
    THEN (CHOOSE old \in c.before.options : old.id = o.id).gap_index
    ELSE NoGap

\* C22: on an input page every option row createQuiz or updateQuiz writes
\* has is_correct = true and the submitted gap index, 0 when none was
\* submitted, whatever is_correct was sent, and no row is written for an
\* option whose text is blank after trimming, while every other desired
\* option has its row once the call returns ok; on a single or multiple page
\* no gap_index is written: a new row has none, an updated row keeps its own
C22_OptionsWrittenByType ==
    calls # <<>>
    => \A i \in 1..Len(LastCall.saved.pages) :
         \A j \in 1..Len(LastCall.saved.pages[i].questions) :
           LET type == LastCall.data.pages[i].type
               desired == LastCall.data.pages[i].questions[j].options
               questionId == LastCall.saved.pages[i].questions[j].id
               rows == WrittenRows(LastCall, questionId)
           IN  questionId # NoId
               => /\ type = "input"
                     => /\ \A o \in rows :
                              \E k \in 1..Len(desired) : InputRowOf(o, desired[k])
                        /\ LastCall.ok
                           => \A k \in 1..Len(desired) :
                                  ~IsBlank(desired[k].option_text)
                                  => \E o \in db.options :
                                         /\ o.question_id = questionId
                                         /\ InputRowOf(o, desired[k])
                  /\ type \in {"single", "multiple"}
                     => \A o \in db.options :
                            o.question_id = questionId
                            => o.gap_index = GapBefore(LastCall, o)

\* A call has written, on an input page, the row of an option sent with
\* is_correct = false and without a gap index, next to an option of blank
\* text that has no row
C22_Witness ==
    /\ Returned
    /\ \E i \in 1..Len(LastCall.saved.pages) :
         \E j \in 1..Len(LastCall.saved.pages[i].questions) :
           LET desired == LastCall.data.pages[i].questions[j].options
               rows == WrittenRows(LastCall, LastCall.saved.pages[i].questions[j].id)
           IN  /\ LastCall.data.pages[i].type = "input"
               /\ \E k \in 1..Len(desired) :
                      /\ ~desired[k].is_correct
                      /\ desired[k].gap_index = NoGap
                      /\ ~IsBlank(desired[k].option_text)
                      /\ \E o \in rows : InputRowOf(o, desired[k])
               /\ \E k \in 1..Len(desired) : IsBlank(desired[k].option_text)

\* createQuiz has written such a row
C22_WitnessCreate == C22_Witness /\ "action" \in DOMAIN LastCall

\* updateQuiz has updated, on a page turned single or multiple, a row that
\* carried a gap index
C22_WitnessChoice ==
    /\ Returned
    /\ "action" \notin DOMAIN LastCall
    /\ LastCall.updates > 0
    /\ \E i \in 1..Len(LastCall.saved.pages) :
         \E j \in 1..Len(LastCall.saved.pages[i].questions) :
           /\ LastCall.data.pages[i].type \in {"single", "multiple"}
           /\ \E o \in db.options :
                  /\ o.question_id = LastCall.saved.pages[i].questions[j].id
                  /\ o.gap_index # NoGap

-----------------------------------------------------------------------------
(* Claims on the rows updateQuiz touches *)

\* The rows that do not belong to the quiz: the pages and theory blocks of
\* other quizzes, the questions of those pages, the options of those
\* questions
RowsOutside(d, quizId) ==
    LET pgs == {pg \in d.quiz_pages : pg.quiz_id # quizId}
        qs == {q \in d.questions : q.page_id \in Ids(pgs)}
    IN  [quiz_pages |-> pgs,
         questions |-> qs,
         options |-> {o \in d.options : o.question_id \in Ids(qs)},
         theory_blocks |-> {b \in d.theory_blocks : b.quiz_id # quizId}]

\* The item of the desired list was not a child of the parent before the
\* call; it now has a row of its own under the parent, of an id the store
\* had not handed out
InsertedAnew(c, wanted, kept, rows, column, parent, old) ==
    (wanted.id = NoId \/ wanted.id \notin Ids({x \in old : x[column] = parent}))
    => /\ kept.id >= c.before.nextId
       /\ \E row \in rows : row.id = kept.id /\ row[column] = parent

\* C28: updateQuiz for a quiz leaves every page, question, option and theory
\* block of the other quizzes as it was, whatever ids the desired tree
\* carries; once it has returned ok, every desired item whose id is not that
\* of a child of its parent within the quiz has a new row under that parent
C28_OtherQuizzesUntouched ==
    calls # <<>>
    => /\ RowsOutside(db, LastCall.data.quizId)
              = RowsOutside(LastCall.before, LastCall.data.quizId)
       /\ LastCall.ok
          => /\ \A i \in 1..Len(LastCall.data.pages) :
                  LET pg == LastCall.data.pages[i]
                      kept == LastCall.saved.pages[i]
                  IN  /\ InsertedAnew(LastCall, pg, kept, db.quiz_pages, "quiz_id",
                                      LastCall.data.quizId, LastCall.before.quiz_pages)
                      /\ \A j \in 1..Len(pg.questions) :
                           /\ InsertedAnew(LastCall, pg.questions[j], kept.questions[j],
                                           db.questions, "page_id", kept.id,
                                           LastCall.before.questions)
                           /\ \A k \in 1..Len(pg.questions[j].options) :
                                  Written(pg.type, pg.questions[j].options[k])
                                  => InsertedAnew(LastCall, pg.questions[j].options[k],
                                                  kept.questions[j].options[k],
                                                  db.options, "question_id",
                                                  kept.questions[j].id,
                                                  LastCall.before.options)
             /\ \A k \in 1..Len(LastCall.data.theoryBlocks) :
                    InsertedAnew(LastCall, LastCall.data.theoryBlocks[k],
                                 LastCall.saved.theoryBlocks[k], db.theory_blocks,
                                 "quiz_id", LastCall.data.quizId,
                                 LastCall.before.theory_blocks)

\* updateQuiz has returned ok for a tree that carried the id of a page, of a
\* question under a page of the quiz, of an option under a question of the
\* quiz and of a theory block of the other quiz
C28_Witness ==
    /\ Returned
    /\ LET outside == RowsOutside(LastCall.before, LastCall.data.quizId)
           pgs == LastCall.data.pages
       IN  /\ \E i \in 1..Len(pgs) : pgs[i].id \in Ids(outside.quiz_pages)
           /\ \E i \in 1..Len(pgs) :
                  /\ pgs[i].id \notin Ids(outside.quiz_pages)
                  /\ \E j \in 1..Len(pgs[i].questions) :
                         pgs[i].questions[j].id \in Ids(outside.questions)
           /\ \E i \in 1..Len(pgs) : \E j \in 1..Len(pgs[i].questions) :
                  /\ pgs[i].questions[j].id \notin Ids(outside.questions)
                  /\ \E k \in 1..Len(pgs[i].questions[j].options) :
                         pgs[i].questions[j].options[k].id \in Ids(outside.options)
           /\ \E k \in 1..Len(LastCall.data.theoryBlocks) :
                  LastCall.data.theoryBlocks[k].id \in Ids(outside.theory_blocks)
           /\ outside.options # {}

-----------------------------------------------------------------------------
(* Claims on the editor *)

\* The places of a template where the placeholder token stands
Occurrences(t) ==
    {i \in 1..Len(t) : /\ i + Len(GapToken) - 1 <= Len(t)
                       /\ SubSeq(t, i, i + Len(GapToken) - 1) = GapToken}

\* The gaps a template has by the rule: one for each occurrence, one for a
\* template without occurrences
GapsByRule(t) ==
    IF Occurrences(t) = {} THEN 1 ELSE Cardinality(Occurrences(t))

\* The gaps, as g + 1, the last save reported for the question
ReportedGaps(pi, qi) ==
    UNION {x.issue.gaps : x \in {y \in calls[1].issues :
                                   y.page = pi /\ y.issue.question = qi}}

\* Does the question list, for the gap, an option with a text (marked
\* correct, when asked)
GapAnswered(q, g, correct) ==
    \E k \in 1..Len(q.options) :
        /\ q.options[k].gap_index = g
        /\ trim(q.options[k].option_text) # <<>>
        /\ correct => q.options[k].is_correct

\* C26: for every question of an input or select_gaps page of the editor,
\* the gap count is the number of occurrences of the placeholder token in
\* the template, and 1 for a template without occurrences; a save of a
\* template that is not empty reports gaps among 0 .. count-1 only, reports
\* every such gap that no option with a text answers, and reports none
\* exactly when each such gap is answered (on a select_gaps page: by a
\* correct option too)
C26_GapCountAndRequiredGaps ==
    \A pi \in 1..Len(form.pages) :
      \A qi \in 1..Len(form.pages[pi].questions) :
        LET q == form.pages[pi].questions[qi]
            n == GapsByRule(q.question_title)
        IN  form.pages[pi].type \in {"input", "select_gaps"} =>
              /\ gapCount(q.question_title) = n
              /\ calls # <<>> /\ q.question_title # <<>> =>
                   /\ ReportedGaps(pi, qi) \subseteq 1..n
                   /\ \A g \in 0..(n - 1) :
                        ~GapAnswered(q, g, FALSE) => g + 1 \in ReportedGaps(pi, qi)
                   /\ ReportedGaps(pi, qi) = {} <=>
                        \A g \in 0..(n - 1) :
                            GapAnswered(q, g, form.pages[pi].type = "select_gaps")

\* C26 witness: a template of two placeholders whose second gap has no
\* option while an option is listed for a third gap; the save reports the
\* second gap only
C26_Witness ==
    /\ calls # <<>>
    /\ Cardinality(Occurrences(form.pages[1].questions[1].question_title)) = 2
    /\ GapAnswered(form.pages[1].questions[1], 0, TRUE)
    /\ GapAnswered(form.pages[1].questions[1], 2, TRUE)
    /\ ReportedGaps(1, 1) = {2}

\* C26 witness: a template without a placeholder and an option at gap 0 is
\* saved
C26_WitnessNoPlaceholder ==
    /\ calls # <<>>
    /\ calls[1].issues = {}
    /\ calls[1].ok
    /\ Occurrences(form.pages[1].questions[1].question_title) = {}
    /\ \E o \in db.options : o.gap_index = 0

\* The questions persisted under the select_gaps pages of a quiz
GapQuestions(d, quizId) ==
    {q \in d.questions :
        \E p \in d.quiz_pages :
            p.id = q.page_id /\ p.quiz_id = quizId /\ p.type = "select_gaps"}

\* Has the persisted question, at every gap of its template, an option and a
\* correct option
GapsComplete(d, q) ==
    \A g \in 0..(gapCount(q.question_title) - 1) :
        /\ \E o \in d.options : o.question_id = q.id /\ o.gap_index = g
        /\ \E o \in d.options : o.question_id = q.id /\ o.gap_index = g /\ o.is_correct

\* C24: in every persisted state the editor reaches, every question of a
\* select_gaps page has at each gap of its template an option and a correct
\* option
C24_EveryGapHasCorrectOption ==
    \A q \in GapQuestions(db, EditedQuiz) : GapsComplete(db, q)

\* The same right after a save the validation let through and updateQuiz
\* answered with ok
C24_HoldsAfterSave ==
    (/\ calls # <<>>
     /\ calls[1].action = "save"
     /\ calls[1].issues = {}
     /\ calls[1].ok)
        => C24_EveryGapHasCorrectOption

\* No two of the rows that name the same parent share an order_index
SiblingsInOrder(rows, column) ==
    \A x, y \in rows :
        x.id # y.id /\ x[column] = y[column] => x.order_index # y.order_index

OrderUnique(d) ==
    /\ SiblingsInOrder(d.quiz_pages, "quiz_id")
    /\ SiblingsInOrder(d.questions, "page_id")
    /\ SiblingsInOrder(d.theory_blocks, "quiz_id")

\* C25: in every persisted state reached by successful createQuiz and
\* updateQuiz calls issued from the editor forms and by immediate deletes, no
\* two pages of a quiz, no two questions of a page and no two theory blocks
\* of a quiz share an order_index. Of the updateQuiz invocations: every one
\* has returned ok and none is the retry of a failed one.
C25_SiblingOrderUnique ==
    (\A s \in 1..Len(runs) :
        Finished(runs[s]) /\ runs[s].ok /\ runs[s].attempt = 1)
        => OrderUnique(db)

\* The same when no store call of the invocations has failed
C25_UniqueWithoutFailure ==
    (\A s \in 1..Len(runs) :
        Finished(runs[s]) /\ runs[s].ok /\ runs[s].attempt = 1 /\ runs[s].failed = 0)
        => OrderUnique(db)

\* The same in the editor: after every operation of a session
C25_UniqueInEditor == form # NoForm => OrderUnique(db)

\* The same after createQuiz and updateQuiz calls without a failing store
\* call that all returned ok
C25_UniqueAfterWrites ==
    (calls # <<>> /\ \A i \in 1..Len(calls) : calls[i].ok) => OrderUnique(db)

\* A second save has re-inserted the page added in the form, which the first
\* save had inserted already: the quiz has two pages
ResavedAddedPage ==
    /\ calls # <<>>
    /\ calls[1].action = "save"
    /\ calls[1].ok
    /\ form.edits = 3
    /\ Len(form.pages) = 2
    /\ form.pages[2].id = NoId
    /\ Cardinality({p \in db.quiz_pages : p.quiz_id = EditedQuiz}) = 2

====
